---- MODULE Spec2Model ----
(***************************************************************************)
(* StatCalc numerical core (src/src/app/page.tsx) and the calculators that *)
(* call it (src/src/components/*.tsx, src/unnamed/part_006).               *)
(*                                                                         *)
(* Every value the program computes is an ECMAScript Number, i.e. an IEEE  *)
(* 754 binary64.  The model keeps that arithmetic: a Number is a record    *)
(*   [k |-> "fin", s |-> sign, m |-> significand, e |-> exponent]          *)
(* of value s * m * 2^e with m < 2^53 held as a little-endian sequence of  *)
(* 14-bit limbs (TLC integers are 32 bits wide), or k = "inf" / "nan".     *)
(* +, -, *, / and Math.round round to nearest, ties to even, overflow to   *)
(* Infinity and underflow gradually, as the language requires.  -0 is      *)
(* identified with +0: nothing in the program tells them apart.            *)
(* A thrown Error is the value Thrown; callers propagate it.               *)
(***************************************************************************)
EXTENDS Integers, Sequences, FiniteSets, TLC

VARIABLES
    pc,         \* "ready", or the name of the library function that has been called
    args,       \* the arguments of the call, a tuple of Numbers
    ret,        \* what the call returned (Thrown: it threw; Diverges: it never returns)
    aux,        \* what the call with the mirrored argument returned
    form,       \* a calculator's form: the calculator and the values of its fields
    errors,     \* the fields the resolver has rejected
    isLoading,  \* the calculator's isLoading
    results,    \* the calculator's results (None: null)
    timer,      \* the values the pending setTimeout callbacks were made with
    toasts,     \* the titles of the toasts shown, oldest first
    frame,      \* the local variables of the last calculation, at its return
    activeTab   \* the tab of the Continuous Uniform calculator that is shown

library == <<pc, args, ret, aux>>
calculator == <<form, errors, isLoading, results, timer, toasts, frame, activeTab>>
vars == <<pc, args, ret, aux, form, errors, isLoading, results, timer, toasts, frame,
          activeTab>>

(***************************************************************************)
(* Natural numbers of arbitrary size: the significands and their products. *)
(***************************************************************************)
LimbBits == 14
Base == 16384

Max2(a, b) == IF a >= b THEN a ELSE b
Min2(a, b) == IF a <= b THEN a ELSE b
SetMax(S) == CHOOSE x \in S : \A y \in S : y <= x

PowersOfTwo == <<1, 2, 4, 8, 16, 32, 64, 128, 256, 512, 1024, 2048, 4096, 8192, 16384>>
Pow2(k) == PowersOfTwo[k + 1]

\* the number of bits of a limb n <= Base
IntBitLen(n) == Cardinality({b \in 0..LimbBits : Pow2(b) <= n})

BLimb(a, i) == IF i >= 1 /\ i <= Len(a) THEN a[i] ELSE 0

\* a without its leading zero limbs
BNorm(a) ==
    LET nz == {i \in 1..Len(a) : a[i] # 0}
    IN  IF nz = {} THEN <<>> ELSE SubSeq(a, 1, SetMax(nz))

\* the limbs of n < 2^31
BFromInt(n) == BNorm(<<n % Base, (n \div Base) % Base, n \div (Base * Base)>>)

\* the limbs of the number whose digit i is s[i] <= 2 * Base - 2: the carry into
\* digit i is 1 iff a digit below it overflows and every digit between the two
\* is at least Base - 1
BCarry1(s) ==
    BNorm([i \in 1..(Len(s) + 1) |->
             (BLimb(s, i)
              + (IF \E j \in 1..(i - 1) :
                      /\ s[j] >= Base
                      /\ \A k \in (j + 1)..(i - 1) : s[k] >= Base - 1
                 THEN 1 ELSE 0)) % Base])

\* one pass of moving what exceeds a limb to the next digit
BSpill(s) ==
    [i \in 1..(Len(s) + 1) |-> (BLimb(s, i) % Base) + (BLimb(s, i - 1) \div Base)]

\* the limbs of the number whose digit i is s[i] < 2^31
BCarry(s) == BCarry1(BSpill(BSpill(s)))

BAdd(a, b) == BCarry1([i \in 1..Max2(Len(a), Len(b)) |-> BLimb(a, i) + BLimb(b, i)])

\* a - b for a >= b: the borrow into digit i is 1 iff a digit below it is
\* negative and every digit between the two is at most 0
BSub(a, b) ==
    LET d == [i \in 1..Len(a) |-> a[i] - BLimb(b, i)]
    IN  BNorm([i \in 1..Len(a) |->
                 (d[i] + Base
                  - (IF \E j \in 1..(i - 1) :
                          /\ d[j] < 0
                          /\ \A k \in (j + 1)..(i - 1) : d[k] <= 0
                     THEN 1 ELSE 0)) % Base])

BCmp(a, b) ==
    IF Len(a) # Len(b) THEN (IF Len(a) < Len(b) THEN -1 ELSE 1)
    ELSE LET df == {i \in 1..Len(a) : a[i] # b[i]}
         IN  IF df = {} THEN 0
             ELSE IF a[SetMax(df)] < b[SetMax(df)] THEN -1 ELSE 1

\* a * d for a limb d <= Base
BMulSmall(a, d) == IF d = 0 THEN <<>> ELSE BCarry([i \in 1..Len(a) |-> a[i] * d])

BShiftLimbs(a, j) == IF Len(a) = 0 THEN a ELSE [i \in 1..j |-> 0] \o a

\* the sum of a[i] * b[k + 1 - i] over i from lo to hi: at most 7 terms
RECURSIVE ColSum(_, _, _, _, _)
ColSum(a, b, k, lo, hi) ==
    IF lo > hi THEN 0 ELSE a[lo] * b[k + 1 - lo] + ColSum(a, b, k, lo + 1, hi)

\* a * b, for a and b of at most 7 limbs each
BMul(a, b) ==
    IF Len(a) = 0 \/ Len(b) = 0 THEN <<>>
    ELSE BCarry([k \in 1..(Len(a) + Len(b) - 1) |->
                   ColSum(a, b, k, Max2(1, k + 1 - Len(b)), Min2(k, Len(a)))])

\* a * 2^s
BShl(a, s) == BShiftLimbs(BMulSmall(a, Pow2(s % LimbBits)), s \div LimbBits)

\* floor(a / 2^s)
BShr(a, s) ==
    LET q == s \div LimbBits
        r == s % LimbBits
        p == Pow2(r)
        hi == Pow2(LimbBits - r)
        n == Len(a) - q
    IN  IF n <= 0 THEN <<>>
        ELSE BNorm([i \in 1..n |-> (a[i + q] \div p) + (BLimb(a, i + q + 1) % p) * hi])

BBitLen(a) == IF Len(a) = 0 THEN 0 ELSE LimbBits * (Len(a) - 1) + IntBitLen(a[Len(a)])

\* bit i of a, bit 0 the lowest
BBit(a, i) == (BLimb(a, (i \div LimbBits) + 1) \div Pow2(i % LimbBits)) % 2

\* the low s bits of a are all zero
BLowZero(a, s) ==
    /\ \A i \in 1..Min2(s \div LimbBits, Len(a)) : a[i] = 0
    /\ BLimb(a, (s \div LimbBits) + 1) % Pow2(s % LimbBits) = 0

\* the largest digit q' <= q with bb * q' <= r
RECURSIVE BDivFix(_, _, _)
BDivFix(bb, r, q) == IF BCmp(BMulSmall(bb, q), r) > 0 THEN BDivFix(bb, r, q - 1) ELSE q

\* the quotient digit of r1 < bb * Base by bb, estimated from the leading limbs
BDivDigit(bb, r1) ==
    BDivFix(bb, r1, Min2((BLimb(r1, Len(bb) + 1) * Base + BLimb(r1, Len(bb))) \div bb[Len(bb)],
                         Base - 1))

\* schoolbook division by bb of the limbs aa[1..i] below the remainder r, the
\* quotient digits found so far in q
RECURSIVE BDivGo(_, _, _, _, _)
BDivStep(aa, bb, i, r1, qd, q) ==
    IF qd = 0 THEN BDivGo(aa, bb, i - 1, r1, <<0>> \o q)
    ELSE BDivGo(aa, bb, i - 1, BSub(r1, BMulSmall(bb, qd)), <<qd>> \o q)

BDivNext(aa, bb, i, r1, q) ==
    IF Len(r1) < Len(bb) THEN BDivGo(aa, bb, i - 1, r1, <<0>> \o q)
    ELSE BDivStep(aa, bb, i, r1, BDivDigit(bb, r1), q)

BDivGo(aa, bb, i, r, q) ==
    IF i = 0 THEN [q |-> BNorm(q), exact |-> Len(r) = 0]
    ELSE BDivNext(aa, bb, i, BNorm(<<aa[i]>> \o r), q)

\* floor(aa / bb) and whether bb divides aa, bb with a full top limb
BDivScaled(aa, bb) ==
    IF Len(aa) < Len(bb) THEN [q |-> <<>>, exact |-> Len(aa) = 0]
    ELSE BDivGo(aa, bb, Len(aa) - Len(bb) + 1,
                BNorm(SubSeq(aa, Len(aa) - Len(bb) + 2, Len(aa))), <<>>)

\* floor(a / b) and whether b divides a, for b # 0: the divisor is scaled to a
\* full top limb, so that a quotient digit estimated from the two leading limbs
\* is at most two too large
BDiv(a, b) ==
    BDivScaled(BShl(a, LimbBits - IntBitLen(b[Len(b)])),
               BShl(b, LimbBits - IntBitLen(b[Len(b)])))

(***************************************************************************)
(* ECMAScript Numbers (IEEE 754 binary64).                                 *)
(***************************************************************************)
MantBits == 53
MinExp == -1074
MaxBinExp == 1024

NaN == [k |-> "nan", s |-> 1, m |-> <<>>, e |-> 0]
PosInf == [k |-> "inf", s |-> 1, m |-> <<>>, e |-> 0]
NegInf == [k |-> "inf", s |-> -1, m |-> <<>>, e |-> 0]
Zero == [k |-> "fin", s |-> 1, m |-> <<>>, e |-> 0]
\* the completion of a call that threw an Error
Thrown == [k |-> "throw", s |-> 1, m |-> <<>>, e |-> 0]

Inf(sg) == IF sg = 1 THEN PosInf ELSE NegInf
IsNaN(x) == x.k = "nan"
IsFinite(x) == x.k = "fin"
IsThrown(x) == x.k = "throw"
IsZero(x) == x.k = "fin" /\ Len(x.m) = 0

\* the finite Number sg * m * 2^e of a significand of at most MantBits bits, or
\* the infinity it overflows to
PackFin(sg, m, e) ==
    IF e + BBitLen(m) > MaxBinExp THEN Inf(sg)
    ELSE [k |-> "fin", s |-> sg, m |-> m, e |-> e]

\* the same for a significand that rounding may have carried to one bit more
Pack(sg, m, e) ==
    IF Len(m) = 0 THEN Zero
    ELSE PackFin(sg, IF BBitLen(m) > MantBits THEN BShr(m, 1) ELSE m,
                 IF BBitLen(m) > MantBits THEN e + 1 ELSE e)

\* M with its low sh > 0 bits rounded away, q = floor(M / 2^sh): to nearest,
\* ties to even
RoundBits(M, q, sh, sticky) ==
    IF BBit(M, sh - 1) = 1 /\ (sticky \/ ~BLowZero(M, sh - 1) \/ BBit(q, 0) = 1)
    THEN BAdd(q, <<1>>)
    ELSE q

RoundShift(sg, M, E, sticky, sh) ==
    Pack(sg, IF sh <= 0 THEN BShl(M, -sh) ELSE RoundBits(M, BShr(M, sh), sh, sticky), E + sh)

\* the Number nearest sg * (M + f) * 2^E, where 0 < f < 1 if sticky and f = 0
\* otherwise: round to nearest, ties to even
RoundPack(sg, M, E, sticky) ==
    RoundShift(sg, M, E, sticky, Max2(E + BBitLen(M) - MantBits, MinExp) - E)

\* the Number of an integer |n| < 2^31
DFromInt(n) ==
    IF n = 0 THEN Zero
    ELSE RoundPack(IF n < 0 THEN -1 ELSE 1, BFromInt(IF n < 0 THEN -n ELSE n), 0, FALSE)

\* the Number n / 2^j, for the inputs that are not integers
DFrac(n, j) ==
    IF n = 0 THEN Zero
    ELSE RoundPack(IF n < 0 THEN -1 ELSE 1, BFromInt(IF n < 0 THEN -n ELSE n), -j, FALSE)

DNeg(x) == IF x.k = "nan" \/ IsZero(x) THEN x ELSE [x EXCEPT !.s = -x.s]
DAbs(x) == IF x.k = "nan" THEN x ELSE [x EXCEPT !.s = 1]

\* -1, 0, 1 as |x| <, =, > |y| for finite x, y
MagCmp(x, y) ==
    LET tx == IF Len(x.m) = 0 THEN MinExp - 1 ELSE x.e + BBitLen(x.m)
        ty == IF Len(y.m) = 0 THEN MinExp - 1 ELSE y.e + BBitLen(y.m)
    IN  IF tx # ty THEN (IF tx < ty THEN -1 ELSE 1)
        ELSE IF x.e = y.e THEN BCmp(x.m, y.m)
        ELSE BCmp(BShl(x.m, Max2(x.e - y.e, 0)), BShl(y.m, Max2(y.e - x.e, 0)))

\* -1, 0, 1 as x <, =, > y, for x and y not NaN
DCmp(x, y) ==
    IF x.k = "inf" \/ y.k = "inf"
    THEN LET vx == IF x.k = "inf" THEN 2 * x.s ELSE IF IsZero(x) THEN 0 ELSE x.s
             vy == IF y.k = "inf" THEN 2 * y.s ELSE IF IsZero(y) THEN 0 ELSE y.s
         IN  IF vx < vy THEN -1 ELSE IF vx > vy THEN 1
             ELSE IF x.k = "inf" /\ y.k = "inf" THEN 0
             ELSE IF x.k = "inf" THEN x.s ELSE -y.s
    ELSE IF IsZero(x) /\ IsZero(y) THEN 0
    ELSE IF IsZero(x) THEN -y.s
    ELSE IF IsZero(y) THEN x.s
    ELSE IF x.s # y.s THEN x.s
    ELSE x.s * MagCmp(x, y)

DLt(x, y) == ~IsNaN(x) /\ ~IsNaN(y) /\ DCmp(x, y) < 0
DLe(x, y) == ~IsNaN(x) /\ ~IsNaN(y) /\ DCmp(x, y) <= 0
DGt(x, y) == DLt(y, x)
DGe(x, y) == DLe(y, x)
\* x === y
DEq(x, y) == ~IsNaN(x) /\ ~IsNaN(y) /\ DCmp(x, y) = 0

\* sg * M * 2^e rounded, M = 0 giving +0
DAddRound(sg, M, e) == IF Len(M) = 0 THEN Zero ELSE RoundPack(sg, M, e, FALSE)

\* hs * H * 2^e + ls * L * 2^e, c comparing H with L
DAddSigned(hs, H, ls, L, e, c) ==
    DAddRound(IF hs = ls \/ c > 0 THEN hs ELSE ls,
              IF hs = ls THEN BAdd(H, L) ELSE IF c >= 0 THEN BSub(H, L) ELSE BSub(L, H),
              e)

DAddAligned(hs, H, ls, L, e) == DAddSigned(hs, H, ls, L, e, BCmp(H, L))

\* x + y
DAdd(x, y) ==
    IF IsNaN(x) \/ IsNaN(y) THEN NaN
    ELSE IF x.k = "inf" THEN (IF y.k = "inf" /\ y.s # x.s THEN NaN ELSE x)
    ELSE IF y.k = "inf" THEN y
    ELSE IF IsZero(x) THEN y
    ELSE IF IsZero(y) THEN x
    ELSE LET hi == IF x.e >= y.e THEN x ELSE y
             lo == IF x.e >= y.e THEN y ELSE x
             d == hi.e - lo.e
         IN  IF d > 2 * MantBits THEN hi
             ELSE DAddAligned(hi.s, BShl(hi.m, d), lo.s, lo.m, lo.e)

\* x - y
DSub(x, y) == DAdd(x, DNeg(y))

\* x * y
DMul(x, y) ==
    IF IsNaN(x) \/ IsNaN(y) THEN NaN
    ELSE IF x.k = "inf" \/ y.k = "inf"
         THEN (IF IsZero(x) \/ IsZero(y) THEN NaN ELSE Inf(x.s * y.s))
    ELSE IF IsZero(x) \/ IsZero(y) THEN Zero
    ELSE RoundPack(x.s * y.s, BMul(x.m, y.m), x.e + y.e, FALSE)

\* x / y
DDiv(x, y) ==
    IF IsNaN(x) \/ IsNaN(y) THEN NaN
    ELSE IF x.k = "inf" THEN (IF y.k = "inf" THEN NaN ELSE Inf(x.s * y.s))
    ELSE IF y.k = "inf" THEN Zero
    ELSE IF IsZero(y) THEN (IF IsZero(x) THEN NaN ELSE Inf(x.s))
    ELSE IF IsZero(x) THEN Zero
    ELSE LET sh == 2 * MantBits + 11 - BBitLen(x.m)
             d == BDiv(BShl(x.m, sh), y.m)
         IN  RoundPack(x.s * y.s, d.q, x.e - sh - y.e, ~d.exact)

\* Number.isInteger(x)
IsInteger(x) == x.k = "fin" /\ (Len(x.m) = 0 \/ x.e >= 0 \/ BLowZero(x.m, -x.e))

\* Math.floor(x)
MathFloor(x) ==
    IF x.k # "fin" \/ IsInteger(x) THEN x
    ELSE RoundPack(x.s, IF x.s = 1 THEN BShr(x.m, -x.e) ELSE BAdd(BShr(x.m, -x.e), <<1>>),
                   0, FALSE)

\* Math.ceil(x)
MathCeil(x) == DNeg(MathFloor(DNeg(x)))

\* Math.round(x): the nearest integer, a tie going up
MathRound(x) ==
    IF x.k # "fin" \/ IsInteger(x) THEN x
    ELSE LET half == BBit(x.m, -x.e - 1) = 1
             more == ~BLowZero(x.m, -x.e - 1)
         IN  RoundPack(x.s, IF half /\ (x.s = 1 \/ more) THEN BAdd(BShr(x.m, -x.e), <<1>>)
                                 ELSE BShr(x.m, -x.e),
                       0, FALSE)

\* Math.max(x, y) and Math.min(x, y): NaN if either is
MathMax(x, y) == IF IsNaN(x) \/ IsNaN(y) THEN NaN ELSE IF DCmp(x, y) >= 0 THEN x ELSE y
MathMin(x, y) == IF IsNaN(x) \/ IsNaN(y) THEN NaN ELSE IF DCmp(x, y) <= 0 THEN x ELSE y

\* ---------------------------------------------------------------------------
\* Math.log and Math.exp, as the engine computes them (the fdlibm algorithms
\* that V8 ships as ieee754::log and ieee754::exp), on the Number operations
\* above.
\* ---------------------------------------------------------------------------

Half == [k |-> "fin", s |-> 1, m |-> <<0, 0, 0, 1024>>, e |-> -53]
One == [k |-> "fin", s |-> 1, m |-> <<0, 0, 0, 1024>>, e |-> -52]
Two == [k |-> "fin", s |-> 1, m |-> <<0, 0, 0, 1024>>, e |-> -51]
\* 2^k for -1074 + 52 <= k <= 1023
TwoToThe(k) == [k |-> "fin", s |-> 1, m |-> <<0, 0, 0, 1024>>, e |-> k - 52]

\* the integer of a numeral below 2^31
BToInt(a) == BLimb(a, 1) + BLimb(a, 2) * Base + BLimb(a, 3) * Base * Base

\* (int) x: the integer part of a finite Number below 2^31 in magnitude
ToInt(x) ==
    IF Len(x.m) = 0 THEN 0
    ELSE x.s * BToInt(IF x.e >= 0 THEN BShl(x.m, x.e) ELSE BShr(x.m, -x.e))

\* the high 32 bits of the binary64 encoding of |x|, x finite
HighWord(x) ==
    IF Len(x.m) = 0 THEN 0
    ELSE IF BBitLen(x.m) = MantBits
         THEN (x.e + 1075) * 1048576 + (BToInt(BShr(x.m, 32)) - 1048576)
         ELSE BToInt(BShr(x.m, 32))

ln2_hi == [k |-> "fin", s |-> 1, m |-> <<0, 15232, 9263, 1419>>, e |-> -53]
ln2_lo == [k |-> "fin", s |-> 1, m |-> <<15478, 5604, 7923, 1678>>, e |-> -85]
Lg1 == [k |-> "fin", s |-> 1, m |-> <<5523, 5461, 5461, 1365>>, e |-> -53]
Lg2 == [k |-> "fin", s |-> 1, m |-> <<14852, 9823, 6553, 1638>>, e |-> -54]
Lg3 == [k |-> "fin", s |-> 1, m |-> <<4953, 4234, 4681, 1170>>, e |-> -54]
Lg4 == [k |-> "fin", s |-> 1, m |-> <<14511, 13881, 7249, 1820>>, e |-> -55]
Lg5 == [k |-> "fin", s |-> 1, m |-> <<990, 6956, 9801, 1489>>, e |-> -55]
Lg6 == [k |-> "fin", s |-> 1, m |-> <<1695, 483, 8349, 1254>>, e |-> -55]
Lg7 == [k |-> "fin", s |-> 1, m |-> <<4676, 15609, 4397, 1212>>, e |-> -55]
Third == [k |-> "fin", s |-> 1, m |-> <<5461, 5461, 5461, 1365>>, e |-> -54]

\* x op y, and x for the statement that leaves its variable as it is
Arith(op, x, y) ==
    CASE op \in {"+", "-"} -> DAdd(x, IF op = "-" THEN DNeg(y) ELSE y)
      [] op = "*" -> DMul(x, y)
      [] op = "/" -> DDiv(x, y)
      [] op = "=" -> x

\* the variables r of an algorithm after the statement st = <<v, op, x, y>>,
\* which is v = x op y
Assign(r, st) == [r EXCEPT ![st[1]] = Arith(st[2], st[3], st[4])]

\* the statements of the logarithm of x = (1 + f) * 2^k for |f| >= 2^-20, one
\* floating-point operation each, on the variables r of the algorithm; mid
\* tells that 1 + f is in the middle range, where hfsq is used
LogStatement(i, r) ==
    CASE i = 1 -> <<"s", "+", Two, r.f>>
      [] i = 2 -> <<"s", "/", r.f, r.s>>
      [] i = 3 -> <<"z", "*", r.s, r.s>>
      [] i = 4 -> <<"w", "*", r.z, r.z>>
      [] i = 5 -> <<"t1", "*", r.w, Lg6>>
      [] i = 6 -> <<"t1", "+", Lg4, r.t1>>
      [] i = 7 -> <<"t1", "*", r.w, r.t1>>
      [] i = 8 -> <<"t1", "+", Lg2, r.t1>>
      [] i = 9 -> <<"t1", "*", r.w, r.t1>>
      [] i = 10 -> <<"t2", "*", r.w, Lg7>>
      [] i = 11 -> <<"t2", "+", Lg5, r.t2>>
      [] i = 12 -> <<"t2", "*", r.w, r.t2>>
      [] i = 13 -> <<"t2", "+", Lg3, r.t2>>
      [] i = 14 -> <<"t2", "*", r.w, r.t2>>
      [] i = 15 -> <<"t2", "+", Lg1, r.t2>>
      [] i = 16 -> <<"t2", "*", r.z, r.t2>>
      [] i = 17 -> <<"R", "+", r.t2, r.t1>>
      [] i = 18 -> <<"hfsq", "*", Half, r.f>>
      [] i = 19 -> <<"hfsq", "*", r.hfsq, r.f>>
      [] i = 20 -> IF r.mid THEN <<"a", "+", r.hfsq, r.R>> ELSE <<"a", "-", r.f, r.R>>
      [] i = 21 -> <<"a", "*", r.s, r.a>>
      [] i = 22 -> <<"lo", "*", r.dk, ln2_lo>>
      [] i = 23 -> IF r.k = 0 THEN <<"a", "=", r.a, r.a>>
                   ELSE IF r.mid THEN <<"a", "+", r.a, r.lo>> ELSE <<"a", "-", r.a, r.lo>>
      [] i = 24 -> IF r.mid THEN <<"a", "-", r.hfsq, r.a>> ELSE <<"a", "=", r.a, r.a>>
      [] i = 25 -> IF r.k = 0 THEN <<"a", "=", r.a, r.a>> ELSE <<"a", "-", r.a, r.f>>
      [] i = 26 -> <<"hi", "*", r.dk, ln2_hi>>
      [] i = 27 -> IF r.k = 0 THEN <<"a", "-", r.f, r.a>> ELSE <<"a", "-", r.hi, r.a>>

LogStep(i, r) == Assign(r, LogStatement(i, r))

\* the statements lo..hi in order: the first half, then (its result in hand)
\* the second half
RECURSIVE LogSteps(_, _, _)
LogStepsRest(lo, hi, r) == IF DOMAIN r = {} THEN r ELSE LogSteps(lo, hi, r)

LogSteps(lo, hi, r) ==
    IF lo = hi THEN LogStep(lo, r)
    ELSE LogStepsRest(((lo + hi) \div 2) + 1, hi, LogSteps(lo, (lo + hi) \div 2, r))

\* log of x = (1 + f) * 2^k for 0 < |f| < 2^-20, R = f * f * (0.5 - f / 3)
LogNearOneR(f, k, dk, R) ==
    IF k = 0 THEN DSub(f, R)
    ELSE DSub(DMul(dk, ln2_hi), DSub(DSub(R, DMul(dk, ln2_lo)), f))

\* log of x = (1 + f) * 2^k for |f| < 2^-20
LogNearOne(f, k, dk) ==
    IF IsZero(f)
    THEN (IF k = 0 THEN Zero ELSE DAdd(DMul(dk, ln2_hi), DMul(dk, ln2_lo)))
    ELSE LogNearOneR(f, k, dk, DMul(DMul(f, f), DSub(Half, DMul(Third, f))))

\* log of x = (1 + f) * 2^k, hx the high fraction bits of 1 + f
LogReduced(f, k, hx) ==
    IF hx = 0 \/ hx >= 1048574 THEN LogNearOne(f, k, DFromInt(k))
    ELSE LogSteps(1, 27, [f |-> f, k |-> k, dk |-> DFromInt(k),
                          mid |-> hx >= 398458 /\ hx <= 440401,
                          s |-> Zero, z |-> Zero, w |-> Zero, t1 |-> Zero, t2 |-> Zero,
                          R |-> Zero, hfsq |-> Zero, a |-> Zero, lo |-> Zero, hi |-> Zero]).a

\* Math.log(x)
MathLog(x) ==
    IF IsNaN(x) THEN NaN
    ELSE IF IsZero(x) THEN NegInf
    ELSE IF x.s = -1 THEN NaN
    ELSE IF x.k = "inf" THEN PosInf
    ELSE LET L == BBitLen(x.m)
             mn == BShl(x.m, MantBits - L)
             k0 == x.e + L - 1
             hx == BToInt(BShr(mn, 32)) - 1048576
             up == hx >= 434332
             xn == [k |-> "fin", s |-> 1, m |-> mn, e |-> IF up THEN -53 ELSE -52]
         IN  LogReduced(DSub(xn, One), IF up THEN k0 + 1 ELSE k0, hx)

o_threshold == [k |-> "fin", s |-> 1, m |-> <<14831, 15336, 9263, 1419>>, e |-> -43]
u_threshold == [k |-> "fin", s |-> -1, m |-> <<12369, 5300, 4365, 1490>>, e |-> -43]
invln2 == [k |-> "fin", s |-> 1, m |-> <<766, 5294, 5238, 1477>>, e |-> -52]
P1 == [k |-> "fin", s |-> 1, m |-> <<5438, 5461, 5461, 1365>>, e |-> -55]
P2 == [k |-> "fin", s |-> -1, m |-> <<15763, 6906, 5825, 1456>>, e |-> -61]
P3 == [k |-> "fin", s |-> 1, m |-> <<7724, 15511, 9898, 1109>>, e |-> -66]
P4 == [k |-> "fin", s |-> -1, m |-> <<11249, 5961, 5148, 1775>>, e |-> -72]
P5 == [k |-> "fin", s |-> 1, m |-> <<9424, 2810, 13975, 1421>>, e |-> -77]
EulerE == [k |-> "fin", s |-> 1, m |-> <<5993, 11345, 12456, 1391>>, e |-> -51]

\* the statements of the exponential of hi - lo scaled by 2^k, one
\* floating-point operation each, on the variables r of the algorithm
ExpStatement(i, r) ==
    CASE i = 1 -> <<"x", "-", r.hi, r.lo>>
      [] i = 2 -> <<"t", "*", r.x, r.x>>
      [] i = 3 -> <<"c", "*", r.t, P5>>
      [] i = 4 -> <<"c", "+", P4, r.c>>
      [] i = 5 -> <<"c", "*", r.t, r.c>>
      [] i = 6 -> <<"c", "+", P3, r.c>>
      [] i = 7 -> <<"c", "*", r.t, r.c>>
      [] i = 8 -> <<"c", "+", P2, r.c>>
      [] i = 9 -> <<"c", "*", r.t, r.c>>
      [] i = 10 -> <<"c", "+", P1, r.c>>
      [] i = 11 -> <<"c", "*", r.t, r.c>>
      [] i = 12 -> <<"c", "-", r.x, r.c>>
      [] i = 13 -> <<"y", "*", r.x, r.c>>
      [] i = 14 -> IF r.k = 0 THEN <<"c", "-", r.c, Two>> ELSE <<"c", "-", Two, r.c>>
      [] i = 15 -> <<"y", "/", r.y, r.c>>
      [] i = 16 -> IF r.k = 0 THEN <<"y", "-", r.y, r.x>> ELSE <<"y", "-", r.lo, r.y>>
      [] i = 17 -> IF r.k = 0 THEN <<"y", "=", r.y, r.y>> ELSE <<"y", "-", r.y, r.hi>>
      [] i = 18 -> <<"y", "-", One, r.y>>
      [] i = 19 -> IF r.k = 0 THEN <<"y", "=", r.y, r.y>>
                   ELSE IF r.k = 1024 THEN <<"y", "*", r.y, Two>>
                   ELSE IF r.k >= -1021 THEN <<"y", "*", r.y, TwoToThe(r.k)>>
                   ELSE <<"y", "*", r.y, TwoToThe(r.k + 1000)>>
      [] i = 20 -> IF r.k = 1024 THEN <<"y", "*", r.y, TwoToThe(1023)>>
                   ELSE IF r.k < -1021 THEN <<"y", "*", r.y, TwoToThe(-1000)>>
                   ELSE <<"y", "=", r.y, r.y>>

ExpStep(i, r) == Assign(r, ExpStatement(i, r))

RECURSIVE ExpSteps(_, _, _)
ExpStepsRest(lo, hi, r) == IF DOMAIN r = {} THEN r ELSE ExpSteps(lo, hi, r)

ExpSteps(lo, hi, r) ==
    IF lo = hi THEN ExpStep(lo, r)
    ELSE ExpStepsRest(((lo + hi) \div 2) + 1, hi, ExpSteps(lo, (lo + hi) \div 2, r))

\* exp of a.hi - a.lo, scaled by 2^a.k
ExpReduced(a) ==
    ExpSteps(1, 20, [hi |-> a.hi, lo |-> a.lo, k |-> a.k, x |-> Zero, t |-> Zero, c |-> Zero,
                     y |-> Zero]).y

\* x reduced by k = t multiples of ln 2
ExpByLn2(x, k, t) == [hi |-> DSub(x, DMul(t, ln2_hi)), lo |-> DMul(t, ln2_lo), k |-> k]

ExpMultiple(x, k) == ExpByLn2(x, k, DFromInt(k))

\* the argument reduction of exp: x = hi - lo + k ln 2, hx the high word of |x|
ExpReduction(x, hx) ==
    IF hx > 1071001154
    THEN IF hx < 1072734898
         THEN [hi |-> DSub(x, IF x.s = 1 THEN ln2_hi ELSE DNeg(ln2_hi)),
               lo |-> IF x.s = 1 THEN ln2_lo ELSE DNeg(ln2_lo), k |-> x.s]
         ELSE ExpMultiple(x, ToInt(DAdd(DMul(invln2, x), IF x.s = 1 THEN Half ELSE DNeg(Half))))
    ELSE [hi |-> x, lo |-> Zero, k |-> 0]

ExpOf(x, hx) ==
    IF hx >= 1082535490 /\ DGt(x, o_threshold) THEN PosInf
    ELSE IF hx >= 1082535490 /\ DLt(x, u_threshold) THEN Zero
    ELSE IF hx > 1071001154 /\ hx < 1072734898 /\ DEq(x, One) THEN EulerE
    ELSE IF hx <= 1071001154 /\ hx < 1043333120 THEN DAdd(One, x)
    ELSE ExpReduced(ExpReduction(x, hx))

\* Math.exp(x)
MathExp(x) ==
    IF IsNaN(x) THEN NaN
    ELSE IF x.k = "inf" THEN (IF x.s = 1 THEN PosInf ELSE Zero)
    ELSE ExpOf(x, HighWord(x))

\* ---------------------------------------------------------------------------
\* Math.pow for an exponent that is a non-negative integer, and Math.sqrt.
\* Math.pow is implementation-approximated: it is modelled by the power
\* computed on 98-bit significands and rounded once, which is the correctly
\* rounded power in all but near-tie cases.  Math.sqrt is correctly rounded.
\* ---------------------------------------------------------------------------

PowBits == 98

\* the value p.m * 2^p.e cut to PowBits bits, p.st telling that bits were lost
PowCut(M, E, st) ==
    IF BBitLen(M) > PowBits
    THEN [m |-> BShr(M, BBitLen(M) - PowBits), e |-> E + BBitLen(M) - PowBits,
          st |-> st \/ ~BLowZero(M, BBitLen(M) - PowBits)]
    ELSE [m |-> M, e |-> E, st |-> st]

PowMul(p, q) == PowCut(BMul(p.m, q.m), p.e + q.e, p.st \/ q.st)

\* |x|^n for n >= 1, by repeated squaring, h = |x|^(n \div 2)
RECURSIVE PowGo(_, _)
PowSq(x, n, h) ==
    IF Len(h.m) = 0 THEN h
    ELSE IF n % 2 = 0 THEN PowMul(h, h)
    ELSE PowMul(PowMul(h, h), [m |-> x.m, e |-> x.e, st |-> FALSE])

PowGo(x, n) ==
    IF n = 1 THEN [m |-> x.m, e |-> x.e, st |-> FALSE]
    ELSE PowSq(x, n, PowGo(x, n \div 2))

PowRound(sg, p) == RoundPack(sg, p.m, p.e, p.st)

\* Math.pow(x, n) for an integer n >= 0
MathPow(x, n) ==
    IF n = 0 THEN One
    ELSE IF IsNaN(x) THEN NaN
    ELSE IF x.k = "inf" THEN (IF x.s = -1 /\ n % 2 = 0 THEN PosInf ELSE x)
    ELSE IF IsZero(x) THEN Zero
    ELSE PowRound(IF x.s = -1 /\ n % 2 = 1 THEN -1 ELSE 1, PowGo(x, n))

\* floor(sqrt(M)) by Newton's iteration downward from r >= sqrt(M)
RECURSIVE BSqrtGo(_, _)
BSqrtNext(M, r, r1) == IF BCmp(r1, r) >= 0 THEN r ELSE BSqrtGo(M, r1)

BSqrtGo(M, r) == BSqrtNext(M, r, BShr(BAdd(r, BDiv(M, r).q), 1))

\* the square root of M * 2^(2 * h), M of 107 or 108 bits
SqrtPack(M, r, h) == RoundPack(1, r, h, BCmp(BMul(r, r), M) # 0)

SqrtScaled(M, h) == SqrtPack(M, BSqrtGo(M, BShl(<<1>>, 54)), h)

\* Math.sqrt(x)
MathSqrt(x) ==
    IF IsNaN(x) THEN NaN
    ELSE IF IsZero(x) THEN Zero
    ELSE IF x.s = -1 THEN NaN
    ELSE IF x.k = "inf" THEN PosInf
    ELSE SqrtScaled(BShl(x.m, 107 - BBitLen(x.m) + ((x.e - (107 - BBitLen(x.m))) % 2)),
                    (x.e - (107 - BBitLen(x.m)) - ((x.e - (107 - BBitLen(x.m))) % 2)) \div 2)

(***************************************************************************)
(* The statistics library of src/app/page.tsx.  A call completes with a    *)
(* Number, with Thrown when it throws, or with Diverges when its loop      *)
(* never ends.                                                             *)
(***************************************************************************)

\* the completion of a call that does not return
Diverges == [k |-> "diverge", s |-> 1, m |-> <<>>, e |-> 0]
IsNumber(x) == x.k \in {"fin", "inf", "nan"}

\* the loop indices the model multiplies out one by one: the product is
\* Infinity from index 171 on, and Infinity * i is Infinity
MaxLoopIndex == 180

\* i++ no longer changes i = 2^53, so a loop `i <= n` with n >= 2^53 never ends
MaxSafeCount == TwoToThe(53)

\* result * lo * (lo + 1) * ... * hi, the multiplications in that order: the
\* iterations lo..mid, then (their result in hand) the iterations mid+1..hi
RECURSIVE factorialLoop(_, _, _)
factorialRest(lo, hi, result) ==
    IF IsNumber(result) THEN factorialLoop(lo, hi, result) ELSE result

factorialLoop(lo, hi, result) ==
    IF lo > hi THEN result
    ELSE IF lo = hi THEN DMul(result, DFromInt(lo))
    ELSE factorialRest(((lo + hi) \div 2) + 1, hi, factorialLoop(lo, (lo + hi) \div 2, result))

\* the last index i <= n of the loop of factorial
factorialLast(n) ==
    IF DGe(n, DFromInt(MaxLoopIndex)) THEN MaxLoopIndex
    ELSE IF DGe(n, Two) THEN ToInt(MathFloor(n))
    ELSE 1

factorialReturn(result) == IF IsFinite(result) THEN result ELSE PosInf

factorial(n) ==
    IF DLt(n, Zero) THEN Thrown
    ELSE IF DEq(n, Zero) \/ DEq(n, One) THEN One
    ELSE IF DGe(n, MaxSafeCount) THEN Diverges
    ELSE factorialReturn(factorialLoop(2, factorialLast(n), One))

\* logFact + log(lo) + ... + log(hi), the additions in that order
RECURSIVE logFactorialLoop(_, _, _)
logFactorialRest(lo, hi, logFact) ==
    IF IsNumber(logFact) THEN logFactorialLoop(lo, hi, logFact) ELSE logFact

logFactorialLoop(lo, hi, logFact) ==
    IF lo > hi THEN logFact
    ELSE IF lo = hi THEN DAdd(logFact, MathLog(DFromInt(lo)))
    ELSE logFactorialRest(((lo + hi) \div 2) + 1, hi,
                          logFactorialLoop(lo, (lo + hi) \div 2, logFact))

\* logFactorial without the integer test of its guard
logFactorialUnchecked(n) ==
    IF DLt(n, Zero) THEN Thrown
    ELSE IF DEq(n, Zero) \/ DEq(n, One) THEN Zero
    ELSE IF DGe(n, MaxSafeCount) THEN Diverges
    ELSE logFactorialLoop(2, ToInt(n), Zero)

logFactorial(n) ==
    IF DLt(n, Zero) \/ ~IsInteger(n) THEN Thrown
    ELSE IF DEq(n, Zero) \/ DEq(n, One) THEN Zero
    ELSE IF DGe(n, MaxSafeCount) THEN Diverges
    ELSE logFactorialLoop(2, ToInt(n), Zero)

Tolerance == [k |-> "fin", s |-> 1, m |-> <<5781, 8347, 8382, 1099>>, e |-> -82]

\* logResult + sum of log(n - i) - log(i + 1) for i from lo to hi, in that order
RECURSIVE combinationsLoop(_, _, _, _)
combinationsRest(n, lo, hi, logResult) ==
    IF IsNumber(logResult) THEN combinationsLoop(n, lo, hi, logResult) ELSE logResult

combinationsLoop(n, lo, hi, logResult) ==
    IF lo > hi THEN logResult
    ELSE IF lo = hi
         THEN DAdd(logResult, DSub(MathLog(DSub(n, DFromInt(lo))), MathLog(DFromInt(lo + 1))))
    ELSE combinationsRest(n, ((lo + hi) \div 2) + 1, hi,
                          combinationsLoop(n, lo, (lo + hi) \div 2, logResult))

\* the last index i < k of the loop of combinations, k below 2^31
combinationsLast(k) == IF IsNaN(k) THEN -1 ELSE ToInt(MathCeil(k)) - 1

combinationsRound(result) ==
    IF IsFinite(result) THEN MathRound(DAdd(result, Tolerance)) ELSE PosInf

\* the logarithmic approach
combinationsLog(n, k) ==
    combinationsRound(MathExp(combinationsLoop(n, 0, combinationsLast(k), Zero)))

combinationsQuotient(result) == IF IsFinite(result) THEN MathRound(result) ELSE PosInf

\* control leaves the direct formula for the logarithmic approach
FallsThrough == [k |-> "fallthrough", s |-> 1, m |-> <<>>, e |-> 0]

\* the direct formula, for n < 30
combinationsDirect(factN, factK, factNK) ==
    IF ~IsNumber(factN) THEN factN
    ELSE IF ~IsNumber(factK) THEN factK
    ELSE IF ~IsNumber(factNK) THEN factNK
    ELSE IF factK = PosInf \/ factNK = PosInf \/ factN = PosInf THEN FallsThrough
    ELSE IF DGt(factK, Zero) /\ DGt(factNK, Zero)
         THEN combinationsQuotient(DDiv(factN, DMul(factK, factNK)))
    ELSE PosInf

combinationsApproach(n, k, direct) ==
    IF direct = FallsThrough THEN combinationsLog(n, k) ELSE direct

\* combinations after k was replaced by n - k where k > n / 2
combinationsReduced(n, k) ==
    combinationsApproach(n, k,
        IF DLt(n, DFromInt(30))
        THEN combinationsDirect(factorial(n), factorial(k), factorial(DSub(n, k)))
        ELSE FallsThrough)

\* combinations with k >= n where the guard has k > n
combinationsOffByOne(n, k) ==
    IF DLt(k, Zero) \/ DGe(k, n) THEN Zero
    ELSE IF DEq(k, Zero) \/ DEq(k, n) THEN One
    ELSE combinationsReduced(n, IF DGt(k, DDiv(n, Two)) THEN DSub(n, k) ELSE k)

\* combinations without the reduction of k to n - k
combinationsUnreduced(n, k) ==
    IF DLt(k, Zero) \/ DGt(k, n) THEN Zero
    ELSE IF DEq(k, Zero) \/ DEq(k, n) THEN One
    ELSE combinationsReduced(n, k)

combinations(n, k) ==
    IF DLt(k, Zero) \/ DGt(k, n) THEN Zero
    ELSE IF DEq(k, Zero) \/ DEq(k, n) THEN One
    ELSE combinationsReduced(n, IF DGt(k, DDiv(n, Two)) THEN DSub(n, k) ELSE k)

(***************************************************************************)
(* poissonPMF (src/app/page.tsx).  P(X = k) = e^-lambda lambda^k / k!,     *)
(* through logarithms when lambda > 700 or k > 170.                        *)
(***************************************************************************)
LogPathLambda == DFromInt(700)
LogPathK == DFromInt(170)

poissonPMFReturn(probability) == IF IsFinite(probability) THEN probability ELSE Zero

poissonPMFLog(lambda, k, logFactK) ==
    IF ~IsNumber(logFactK) THEN logFactK
    ELSE poissonPMFReturn(MathExp(DSub(DAdd(DNeg(lambda), DMul(k, MathLog(lambda))), logFactK)))

poissonPMFDirect(lambda, k, factK) ==
    IF ~IsNumber(factK) THEN factK
    ELSE IF factK = PosInf THEN Zero
    ELSE poissonPMFReturn(DDiv(DMul(MathExp(DNeg(lambda)), MathPow(lambda, ToInt(k))), factK))

\* poissonPMF without the integer test of its guard
poissonPMFUnchecked(lambda, k) ==
    IF DLt(lambda, Zero) \/ DLt(k, Zero) THEN Zero
    ELSE IF DGt(lambda, LogPathLambda) \/ DGt(k, LogPathK) THEN poissonPMFLog(lambda, k, logFactorial(k))
    ELSE poissonPMFDirect(lambda, k, factorial(k))

poissonPMF(lambda, k) ==
    IF DLt(lambda, Zero) \/ DLt(k, Zero) \/ ~IsInteger(k) THEN Zero
    ELSE IF DGt(lambda, LogPathLambda) \/ DGt(k, LogPathK) THEN poissonPMFLog(lambda, k, logFactorial(k))
    ELSE poissonPMFDirect(lambda, k, factorial(k))

(***************************************************************************)
(* Calls of the library.  A run picks the arguments and calls one function *)
(* of src/app/page.tsx with them; the state keeps what came back.          *)
(***************************************************************************)
None == [k |-> "none", s |-> 1, m |-> <<>>, e |-> 0]

\* no calculator takes part
CalculatorIdle ==
    /\ form = None
    /\ errors = {}
    /\ isLoading = FALSE
    /\ results = None
    /\ timer = <<>>
    /\ toasts = <<>>
    /\ frame = None
    /\ activeTab = "tail_probabilities"

MaxN == 12
MinN == 2

IntRange(lo, hi) == {DFromInt(i) : i \in lo..hi}

\* 2.5, -0.5, NaN and the infinities
SpecialNumbers == {DFrac(5, 1), DFrac(-1, 1), NaN, PosInf, NegInf}

\* 22! is the last exact factorial, 170! the last finite one
UnaryInputs ==
    {<<x>> : x \in IntRange(-MinN, MaxN) \cup SpecialNumbers
                   \cup {DFromInt(22), DFromInt(23), DFromInt(170), DFromInt(171), MaxSafeCount}}

\* the examples of the specification, both sides of n = 30, and arguments
\* that are no integers
ProbePairs ==
    {<<DFromInt(52), DFromInt(5)>>, <<DFromInt(5), DFromInt(7)>>,
     <<DFromInt(29), DFromInt(14)>>, <<DFromInt(29), DFromInt(15)>>,
     <<DFromInt(30), DFromInt(15)>>, <<DFromInt(30), DFromInt(29)>>,
     <<DFromInt(50), DFromInt(22)>>, <<DFromInt(50), DFromInt(28)>>,
     <<DFromInt(52), DFromInt(19)>>, <<DFromInt(52), DFromInt(33)>>,
     <<DFromInt(-5), NaN>>, <<DFromInt(5), NaN>>, <<NaN, DFromInt(2)>>,
     <<DFrac(11, 1), DFromInt(2)>>, <<DFromInt(40), DFrac(5, 1)>>,
     <<PosInf, DFromInt(3)>>, <<PosInf, PosInf>>}

BinaryInputs == (IntRange(-MinN, MaxN) \X IntRange(-MinN, MaxN + 1)) \cup ProbePairs

InitCombinatorics ==
    /\ pc = "ready"
    /\ args \in UnaryInputs \cup BinaryInputs
    /\ ret = None
    /\ aux = None
    /\ CalculatorIdle

CallFactorial ==
    /\ pc = "ready"
    /\ Len(args) = 1
    /\ pc' = "factorial"
    /\ ret' = factorial(args[1])
    /\ UNCHANGED <<args, aux, calculator>>

CallLogFactorial ==
    /\ pc = "ready"
    /\ Len(args) = 1
    /\ pc' = "logFactorial"
    /\ ret' = logFactorial(args[1])
    /\ UNCHANGED <<args, aux, calculator>>

\* combinations(n, k), and combinations(n, n - k) beside it
CallCombinations ==
    /\ pc = "ready"
    /\ Len(args) = 2
    /\ pc' = "combinations"
    /\ ret' = combinations(args[1], args[2])
    /\ aux' = combinations(args[1], DSub(args[1], args[2]))
    /\ UNCHANGED <<args, calculator>>

NextCombinatorics == CallFactorial \/ CallLogFactorial \/ CallCombinations

SpecCombinatorics == InitCombinatorics /\ [][NextCombinatorics]_vars

(***************************************************************************)
(* Properties of factorial, logFactorial and combinations.                 *)
(***************************************************************************)
\* lo * (lo + 1) * ... * hi and C(n, k) = (n-k+1) * ... * n / k! as natural
\* numbers (the factors of a product are bound to their values one by one)
RECURSIVE RangeProduct(_, _)
RangeProduct(lo, hi) ==
    IF lo > hi THEN <<1>>
    ELSE IF lo = hi THEN BFromInt(lo)
    ELSE CHOOSE p \in {BMul(a, b) : a \in {RangeProduct(lo, (lo + hi) \div 2)},
                                    b \in {RangeProduct(((lo + hi) \div 2) + 1, hi)}} : TRUE

ExactBinomial(n, k) ==
    CHOOSE c \in {BDiv(a, b).q : a \in {RangeProduct(n - k + 1, n)},
                                 b \in {RangeProduct(1, k)}} : TRUE

\* the natural number a Number is, and how far it is from another
IsNatural(x) == IsFinite(x) /\ IsInteger(x) /\ DGe(x, Zero)
NaturalOf(x) ==
    IF Len(x.m) = 0 THEN <<>> ELSE IF x.e >= 0 THEN BShl(x.m, x.e) ELSE BShr(x.m, -x.e)
Distance(a, b) == IF BCmp(a, b) >= 0 THEN BSub(a, b) ELSE BSub(b, a)

\* integer arguments 0 <= k <= n
BinomialCase ==
    /\ pc = "combinations"
    /\ IsNatural(args[1]) /\ IsNatural(args[2])
    /\ DLe(args[2], args[1])

\* C1: factorial throws exactly when n < 0; logFactorial throws exactly when
\* n is negative or not an integer, and is 0 at n = 0 and at n = 1.
C1_DomainErrors ==
    /\ pc = "factorial" => (ret = Thrown <=> DLt(args[1], Zero))
    /\ pc = "logFactorial" =>
           /\ ret = Thrown <=> (DLt(args[1], Zero) \/ ~IsInteger(args[1]))
           /\ args[1] \in {Zero, One} => ret = Zero

\* logFactorial(2.5) has thrown
C1_Witness == pc = "logFactorial" /\ args[1] = DFrac(5, 1) /\ ret = Thrown

\* C2: no call of combinations ends in a DomainError, whatever numbers it
\* is given.
C2_NoDomainError == pc = "combinations" => ret # Thrown

\* |r - c| <= c / 2^40
Near(r, c) == BCmp(BShl(Distance(r, c), 40), c) <= 0

C4_Symmetry == BinomialCase => ret = aux

\* combinations(52, 33) and combinations(52, 19) have returned the same
C4_Witness ==
    /\ pc = "combinations"
    /\ args = <<DFromInt(52), DFromInt(33)>>
    /\ IsFinite(ret) /\ DGt(ret, One) /\ ret = aux

\* C5: for every n >= 0, factorial(n) returns a number: the product when it
\* is finite, +Infinity otherwise.
C5_FactorialReturns ==
    pc = "factorial" /\ DGe(args[1], Zero) => IsFinite(ret) \/ ret = PosInf

(***************************************************************************)
(* Calls of poissonPMF.                                                    *)
(***************************************************************************)
MaxLambda == 4
MaxK == 8

LambdaInputs == IntRange(-1, MaxLambda) \cup {DFrac(1, 1), DFrac(5, 1), NaN, DFromInt(700)}
KInputs == IntRange(-1, MaxK) \cup {DFrac(5, 1), NaN, PosInf, DFromInt(170)}

\* the log-space path by k > 170 and by lambda > 700, and a call that does
\* not return
PoissonProbes ==
    {<<DFromInt(5), DFromInt(171)>>, <<DFromInt(701), DFromInt(3)>>,
     <<DFromInt(701), Zero>>, <<PosInf, Zero>>, <<PosInf, DFromInt(3)>>,
     <<DFromInt(750), DFrac(5, 1)>>, <<One, MaxSafeCount>>}

InitPoissonPMF ==
    /\ pc = "ready"
    /\ args \in (LambdaInputs \X KInputs) \cup PoissonProbes
    /\ ret = None
    /\ aux = None
    /\ CalculatorIdle

CallPoissonPMF ==
    /\ pc = "ready"
    /\ pc' = "poissonPMF"
    /\ ret' = poissonPMF(args[1], args[2])
    /\ UNCHANGED <<args, aux, calculator>>

NextPoissonPMF == CallPoissonPMF

SpecPoissonPMF == InitPoissonPMF /\ [][NextPoissonPMF]_vars

Five == DFromInt(5)
Ten == DFromInt(10)
\* 1e-15, 0.999999999 and 0.999999
Negligible == [k |-> "fin", s |-> 1, m |-> <<5654, 15261, 15097, 1152>>, e |-> -102]
NearlyOne == [k |-> "fin", s |-> 1, m |-> <<4001, 15834, 16383, 2047>>, e |-> -53]
AlmostOne == [k |-> "fin", s |-> 1, m |-> <<3049, 7300, 16350, 2047>>, e |-> -53]

\* a clamp that bounds from above only
clampAbove(val) == MathMin(One, val)

clamp(val) == MathMax(Zero, MathMin(One, val))

\* sum + p[lo] + ... + p[hi], the additions in that order
RECURSIVE sliceSum(_, _, _, _)
sliceSumRest(p, lo, hi, sum) == IF IsNumber(sum) THEN sliceSum(p, lo, hi, sum) ELSE sum

sliceSum(p, lo, hi, sum) ==
    IF lo > hi THEN sum
    ELSE IF lo = hi THEN DAdd(sum, p[lo])
    ELSE sliceSumRest(p, ((lo + hi) \div 2) + 1, hi, sliceSum(p, lo, (lo + hi) \div 2, sum))

\* probabilities.slice(0, xValue + 1).reduce((sum, p) => sum + p, 0)
sliceReduce(probabilities, xValue) ==
    sliceSum(probabilities, 1, Min2(ToInt(xValue) + 1, Len(probabilities)), Zero)

\* p || 0
orZero(p) == IF IsNaN(p) \/ IsZero(p) THEN Zero ELSE p

\* the variables of the loop before its first iteration
LoopStart ==
    [probabilities |-> <<>>, cumulativeProbability |-> Zero,
     p_eq_x |-> Zero, p_lt_x |-> Zero, p_lte_x |-> Zero, broke |-> FALSE]

\* one iteration of the loop, with P(X = x) taken at index x + 1
poissonVisitShifted(xValue, limit, k, prob_k, acc) ==
    IF (IsNaN(prob_k) \/ DLt(prob_k, Negligible)) /\ DGt(DFromInt(k), limit)
    THEN [acc EXCEPT !.broke = TRUE]
    ELSE [probabilities |-> Append(acc.probabilities, prob_k),
          cumulativeProbability |-> DAdd(acc.cumulativeProbability, prob_k),
          p_eq_x |-> IF DEq(DFromInt(k), DAdd(xValue, One)) THEN prob_k ELSE acc.p_eq_x,
          p_lt_x |-> IF DLt(DFromInt(k), xValue) THEN DAdd(acc.p_lt_x, prob_k) ELSE acc.p_lt_x,
          p_lte_x |-> acc.p_lte_x,
          broke |-> FALSE]

\* one iteration of the loop of calculateProbabilities
poissonVisit(xValue, limit, k, prob_k, acc) ==
    IF (IsNaN(prob_k) \/ DLt(prob_k, Negligible)) /\ DGt(DFromInt(k), limit)
    THEN [acc EXCEPT !.broke = TRUE]
    ELSE [probabilities |-> Append(acc.probabilities, prob_k),
          cumulativeProbability |-> DAdd(acc.cumulativeProbability, prob_k),
          p_eq_x |-> IF DEq(DFromInt(k), xValue) THEN prob_k ELSE acc.p_eq_x,
          p_lt_x |-> IF DLt(DFromInt(k), xValue) THEN DAdd(acc.p_lt_x, prob_k) ELSE acc.p_lt_x,
          p_lte_x |-> acc.p_lte_x,
          broke |-> FALSE]

\* the iterations k = lo..hi, until one breaks
RECURSIVE poissonLoop(_, _, _, _, _, _)
poissonRest(lambda, xValue, limit, lo, hi, acc) ==
    IF acc.broke THEN acc ELSE poissonLoop(lambda, xValue, limit, lo, hi, acc)

poissonLoop(lambda, xValue, limit, lo, hi, acc) ==
    IF lo > hi THEN acc
    ELSE IF lo = hi THEN poissonVisit(xValue, limit, lo, poissonPMF(lambda, DFromInt(lo)), acc)
    ELSE poissonRest(lambda, xValue, limit, ((lo + hi) \div 2) + 1, hi,
                     poissonLoop(lambda, xValue, limit, lo, (lo + hi) \div 2, acc))

\* the statements after the loop, with P(X >= x) taken from P(X <= x)
poissonComplementsSwapped(upperLimit, acc, p_lte_x) ==
    [upperLimit |-> upperLimit,
     probabilities |-> acc.probabilities,
     cumulativeProbability |-> acc.cumulativeProbability,
     p_eq_x |-> acc.p_eq_x,
     p_lt_x |-> acc.p_lt_x,
     p_lte_x |-> p_lte_x,
     p_gt_x |-> DSub(One, p_lte_x),
     p_gte_x |-> DSub(One, p_lte_x)]

\* the statements after the loop
poissonComplements(upperLimit, acc, p_lte_x) ==
    [upperLimit |-> upperLimit,
     probabilities |-> acc.probabilities,
     cumulativeProbability |-> acc.cumulativeProbability,
     p_eq_x |-> acc.p_eq_x,
     p_lt_x |-> acc.p_lt_x,
     p_lte_x |-> p_lte_x,
     p_gt_x |-> DSub(One, p_lte_x),
     p_gte_x |-> DSub(One, acc.p_lt_x)]

poissonAfterLoop(xValue, upperLimit, acc) ==
    poissonComplements(upperLimit, acc,
        sliceReduce([i \in DOMAIN acc.probabilities |-> orZero(acc.probabilities[i])], xValue))

poissonLimited(lambda, xValue, stdDev, upperLimit) ==
    IF upperLimit = PosInf THEN Diverges
    \* k++ leaves k at 2^53, below upperLimit and not above lambda + 5 * stdDev
    ELSE IF DGt(upperLimit, MaxSafeCount)
            /\ DGe(DAdd(lambda, DMul(Five, stdDev)), MaxSafeCount) THEN Diverges
    ELSE poissonAfterLoop(xValue, upperLimit,
             poissonLoop(lambda, xValue, DAdd(lambda, DMul(Five, stdDev)),
                         0, ToInt(upperLimit) - 1, LoopStart))

\* the local variables of calculateProbabilities(lambda, xValue) at its return
\* statement
calculateProbabilitiesLocals(lambda, xValue, stdDev) ==
    poissonLimited(lambda, xValue, stdDev,
        MathMax(DAdd(xValue, One), MathCeil(DAdd(DAdd(lambda, DMul(Ten, stdDev)), Ten))))

\* the object calculateProbabilities returns
calculateProbabilities(lambda, stdDev, locals) ==
    [mean |-> lambda,
     variance |-> lambda,
     stdDev |-> IF IsNaN(stdDev) THEN Zero ELSE stdDev,
     p_eq_x |-> clamp(locals.p_eq_x),
     p_lt_x |-> clamp(locals.p_lt_x),
     p_lte_x |-> clamp(locals.p_lte_x),
     p_gt_x |-> clamp(locals.p_gt_x),
     p_gte_x |-> clamp(locals.p_gte_x)]

\* part_006: one iteration of the loop, entered while the cumulative
\* probability is below 0.999999999
legacyVisit(xValue, k, prob_k, acc) ==
    [probabilities |-> Append(acc.probabilities, prob_k),
     cumulativeProbability |-> DAdd(acc.cumulativeProbability, prob_k),
     p_eq_x |-> IF DEq(DFromInt(k), xValue) THEN prob_k ELSE acc.p_eq_x,
     p_lt_x |-> IF DLt(DFromInt(k), xValue) THEN DAdd(acc.p_lt_x, prob_k) ELSE acc.p_lt_x,
     p_lte_x |-> IF DLe(DFromInt(k), xValue) THEN DAdd(acc.p_lte_x, prob_k) ELSE acc.p_lte_x,
     broke |-> FALSE]

RECURSIVE legacyLoop(_, _, _, _, _)
legacyRest(lambda, xValue, lo, hi, acc) ==
    IF acc.broke THEN acc ELSE legacyLoop(lambda, xValue, lo, hi, acc)

legacyLoop(lambda, xValue, lo, hi, acc) ==
    IF lo > hi THEN acc
    ELSE IF lo = hi
         THEN IF DLt(acc.cumulativeProbability, NearlyOne)
              THEN legacyVisit(xValue, lo, poissonPMF(lambda, DFromInt(lo)), acc)
              ELSE [acc EXCEPT !.broke = TRUE]
    ELSE legacyRest(lambda, xValue, ((lo + hi) \div 2) + 1, hi,
                    legacyLoop(lambda, xValue, lo, (lo + hi) \div 2, acc))

\* part_006: p_lte_x after the loop
legacyLte(xValue, upperLimit, acc) ==
    IF DGe(xValue, DSub(upperLimit, One)) /\ DGe(acc.cumulativeProbability, NearlyOne) THEN One
    ELSE IF DGe(xValue, Zero) /\ DLt(xValue, upperLimit) THEN sliceReduce(acc.probabilities, xValue)
    ELSE IF DLt(xValue, Zero) THEN Zero
    ELSE IF DGt(acc.cumulativeProbability, AlmostOne) THEN One
    ELSE acc.cumulativeProbability

legacyAfterLoop(xValue, upperLimit, acc) ==
    poissonComplements(upperLimit, acc, legacyLte(xValue, upperLimit, acc))

legacyLimited(lambda, xValue, upperLimit) ==
    IF upperLimit = PosInf THEN Diverges
    ELSE legacyAfterLoop(xValue, upperLimit,
             legacyLoop(lambda, xValue, 0, ToInt(upperLimit) - 1, LoopStart))

\* part_006: the local variables of calculateProbabilities at its return
legacyCalculateProbabilitiesLocals(lambda, xValue, stdDev) ==
    legacyLimited(lambda, xValue,
        MathMax(DAdd(xValue, One), MathCeil(DAdd(DAdd(lambda, DMul(Five, stdDev)), Ten))))

\* formSchema: lambda a number >= 0, x an integer >= 0; the fields it rejects
formSchema(values) ==
    {f \in {"lambda"} : IsNaN(values.lambda) \/ DLt(values.lambda, Zero)}
        \cup {f \in {"x"} : ~IsInteger(values.x) \/ DLt(values.x, Zero)}

MaxFormX == 2

\* lambda: 0, 0.5, 1, and -1, which the form rejects
FormLambdas == {Zero, DFrac(1, 1), One, DFromInt(-1)}

\* x: the first integers, two beyond the last index the loops reach for these
\* lambda, and 2.5 and -1, which the form rejects
FormXs == IntRange(0, MaxFormX) \cup {DFromInt(14), DFromInt(15), DFrac(5, 1), DFromInt(-1)}

\* 0.0018179466415604328: the first three terms sum to 0.999999999 exactly
TightLambda == [k |-> "fin", s |-> 1, m |-> <<7178, 7954, 4181, 1906>>, e |-> -62]

\* lambda = 1.875, x = 21: the sum of the terms exceeds 1;
\* lambda = Infinity: the loop has no last iteration;
\* lambda = TightLambda, x = 10: part_006 stops at the threshold itself
PoissonProbeValues ==
    {<<DFrac(15, 3), DFromInt(21)>>, <<PosInf, Zero>>, <<TightLambda, Ten>>}

\* lambda = 2^60, finite: the loop counter of poisson-calculator.tsx cannot
\* pass 2^53
PoissonForms ==
    {[calculator |-> c, lambda |-> v[1], x |-> v[2]] :
        c \in {"poisson", "legacy"}, v \in (FormLambdas \X FormXs) \cup PoissonProbeValues}
        \cup {[calculator |-> "poisson", lambda |-> TwoToThe(60), x |-> Zero]}

\* handleSubmit with values the resolver rejects: onSubmit is not called
PoissonRejected ==
    /\ form.calculator \in {"poisson", "legacy"}
    /\ formSchema(form) # {}
    /\ errors' = formSchema(form)
    /\ UNCHANGED <<library, form, isLoading, results, timer, toasts, frame, activeTab>>

\* onSubmit of poisson-calculator.tsx; the button is disabled while loading
PoissonSubmit ==
    /\ form.calculator = "poisson"
    /\ formSchema(form) = {}
    /\ ~isLoading
    /\ isLoading' = TRUE
    /\ results' = None
    /\ timer' = Append(timer, form)
    /\ errors' = {}
    /\ frame' = None
    /\ UNCHANGED <<library, form, toasts, activeTab>>

\* the callback of setTimeout.  poissonPMF does not throw for an integer
\* k >= 0, so the catch clause is never entered.  A calculation that does not
\* return leaves the page loading.
PoissonTimeout ==
    /\ timer # <<>>
    /\ Head(timer).calculator = "poisson"
    /\ frame # Diverges
    /\ timer' = Tail(timer)
    /\ frame' = calculateProbabilitiesLocals(Head(timer).lambda, Head(timer).x,
                                             MathSqrt(Head(timer).lambda))
    /\ IF frame' = Diverges
       THEN UNCHANGED <<results, isLoading>>
       ELSE /\ results' = calculateProbabilities(Head(timer).lambda,
                                                 MathSqrt(Head(timer).lambda), frame')
            /\ isLoading' = FALSE
    /\ UNCHANGED <<library, form, errors, toasts, activeTab>>

\* onSubmit of part_006: the calculation runs in the handler
LegacySubmit ==
    /\ form.calculator = "legacy"
    /\ formSchema(form) = {}
    /\ ~isLoading
    /\ errors' = {}
    /\ frame' = legacyCalculateProbabilitiesLocals(form.lambda, form.x, MathSqrt(form.lambda))
    /\ IF frame' = Diverges
       THEN isLoading' = TRUE /\ UNCHANGED results
       ELSE /\ results' = calculateProbabilities(form.lambda, MathSqrt(form.lambda), frame')
            /\ isLoading' = FALSE
    /\ UNCHANGED <<library, form, timer, toasts, activeTab>>

\* a Poisson calculator has returned: frame holds the local variables of
\* calculateProbabilities, results the object it returned
PoissonReturned ==
    /\ form.calculator \in {"poisson", "legacy"}
    /\ results # None
    /\ frame # None

\* |a - b| <= 1e-9
Within(a, b) == DLe(DAbs(DSub(a, b)), Tolerance)

\* C7: the results of the Poisson calculators are consistent: before clamping
\* P(X>x) + P(X<=x) and P(X>=x) + P(X<x) are exactly 1; P(X<x) + P(X=x) + P(X>x)
\* is within 1e-9 of 1 and P(X=x) + P(X>x) within 1e-9 of P(X>=x), also when
\* the loop stopped before index x.
C7_Consistent ==
    PoissonReturned =>
        /\ DAdd(frame.p_gt_x, frame.p_lte_x) = One
        /\ DAdd(frame.p_gte_x, frame.p_lt_x) = One
        /\ Within(DAdd(DAdd(frame.p_lt_x, frame.p_eq_x), frame.p_gt_x), One)
        /\ Within(DAdd(frame.p_eq_x, frame.p_gt_x), frame.p_gte_x)
        /\ Within(DAdd(DAdd(results.p_lt_x, results.p_eq_x), results.p_gt_x), One)
        /\ Within(DAdd(results.p_eq_x, results.p_gt_x), results.p_gte_x)

\* part_006 has stopped before index x with a cumulative probability of
\* 0.999999999 exactly, and reports P(X<=x) = 1 beside P(X<x) = 0.999999999
C7_Witness ==
    /\ PoissonReturned
    /\ form.calculator = "legacy"
    /\ Len(frame.probabilities) <= ToInt(form.x)
    /\ frame.p_lt_x = NearlyOne
    /\ frame.p_lte_x = One
    /\ DGt(frame.p_eq_x, Zero) \/ DGt(frame.p_gte_x, Zero)

\* sum + p[lo] + ... + p[hi], the additions in that order (the partial sums
\* are bound to their values one by one)
RECURSIVE LeftSum(_, _, _, _)
LeftSum(p, lo, hi, sum) ==
    IF lo > hi THEN sum
    ELSE IF lo = hi THEN DAdd(sum, p[lo])
    ELSE CHOOSE r \in {LeftSum(p, ((lo + hi) \div 2) + 1, hi, left) :
                          left \in {LeftSum(p, lo, (lo + hi) \div 2, sum)}} : TRUE

\* the condition under which the loop ends at index n, before the upper limit
StoppedEarly(n) ==
    IF form.calculator = "legacy"
    THEN DGe(frame.cumulativeProbability, NearlyOne)
    ELSE /\ \E prob_n \in {poissonPMF(form.lambda, DFromInt(n))} :
                IsNaN(prob_n) \/ DLt(prob_n, Negligible)
         /\ DGt(DFromInt(n), DAdd(form.lambda, DMul(Five, MathSqrt(form.lambda))))

hypergeometricPMFQuotient(combinations_K_k, combinations_NK_nk, combinations_N_n) ==
    IF ~IsNumber(combinations_K_k) THEN combinations_K_k
    ELSE IF ~IsNumber(combinations_NK_nk) THEN combinations_NK_nk
    ELSE IF ~IsNumber(combinations_N_n) THEN combinations_N_n
    ELSE IF combinations_N_n = Zero \/ combinations_N_n = PosInf THEN Zero
    ELSE IF combinations_K_k = PosInf \/ combinations_NK_nk = PosInf THEN Zero
    ELSE MathMax(Zero, MathMin(One, DDiv(DMul(combinations_K_k, combinations_NK_nk),
                                         combinations_N_n)))

\* the quotient with combinations(K, k) for its denominator
hypergeometricPMFOverSuccesses(c) == hypergeometricPMFQuotient(c[1], c[2], c[1])

\* c = <<combinations(K, k), combinations(N - K, n - k), combinations(N, n)>>
hypergeometricPMFOf(c) == hypergeometricPMFQuotient(c[1], c[2], c[3])

\* the condition of the first if of hypergeometricPMF
hypergeometricPMFRejects(N, K, n, k) ==
    \/ DLt(k, Zero) \/ DLt(n, Zero) \/ DLt(K, Zero) \/ DLt(N, Zero)
    \/ ~IsInteger(N) \/ ~IsInteger(K) \/ ~IsInteger(n) \/ ~IsInteger(k)
    \/ DGt(K, N) \/ DGt(n, N) \/ DGt(k, n) \/ DGt(k, K)
    \/ DGt(DSub(n, k), DSub(N, K))

\* hypergeometricPMF without the integer tests of its first if
hypergeometricPMFUnchecked(N, K, n, k) ==
    IF \/ DLt(k, Zero) \/ DLt(n, Zero) \/ DLt(K, Zero) \/ DLt(N, Zero)
       \/ DGt(K, N) \/ DGt(n, N) \/ DGt(k, n) \/ DGt(k, K)
       \/ DGt(DSub(n, k), DSub(N, K))
    THEN Zero
    ELSE hypergeometricPMFOf([j \in 1..3 |-> combinations(<<K, DSub(N, K), N>>[j],
                                                          <<k, DSub(n, k), n>>[j])])

hypergeometricPMF(N, K, n, k) ==
    IF hypergeometricPMFRejects(N, K, n, k)
    THEN Zero
    ELSE hypergeometricPMFOf([j \in 1..3 |-> combinations(<<K, DSub(N, K), N>>[j],
                                                          <<k, DSub(n, k), n>>[j])])

\* a mean with the quotient N / K
hypergeometricMeanInverted(N, K, n) == IF DLe(N, Zero) THEN NaN ELSE DMul(n, DDiv(N, K))

hypergeometricMean(N, K, n) == IF DLe(N, Zero) THEN NaN ELSE DMul(n, DDiv(K, N))

hypergeometricVarianceReturn(variance) == IF DGe(variance, Zero) THEN variance ELSE Zero

hypergeometricVarianceOf(N, n, p) ==
    hypergeometricVarianceReturn(
        DMul(DMul(DMul(n, p), DSub(One, p)), DDiv(DSub(N, n), DSub(N, One))))

hypergeometricVariance(N, K, n) ==
    IF DLe(N, One) THEN NaN ELSE hypergeometricVarianceOf(N, n, DDiv(K, N))

hypergeometricStdDevOf(variance) == IF IsNaN(variance) THEN NaN ELSE MathSqrt(variance)

hypergeometricStdDev(N, K, n) == hypergeometricStdDevOf(hypergeometricVariance(N, K, n))

\* an iteration that adds to p_lte_k where i < kValue only
hypergeometricVisitStrict(kValue, i, prob_i, acc) ==
    [visited |-> Append(acc.visited, i),
     probabilities |-> Append(acc.probabilities, prob_i),
     p_eq_k |-> IF DEq(DFromInt(i), kValue) THEN prob_i ELSE acc.p_eq_k,
     p_lt_k |-> IF DLt(DFromInt(i), kValue) THEN DAdd(acc.p_lt_k, prob_i) ELSE acc.p_lt_k,
     p_lte_k |-> IF DLt(DFromInt(i), kValue) THEN DAdd(acc.p_lte_k, prob_i) ELSE acc.p_lte_k]

\* one iteration of the loop of the calculator's calculateProbabilities;
\* visited lists the indices at which hypergeometricPMF was evaluated
hypergeometricVisit(kValue, i, prob_i, acc) ==
    [visited |-> Append(acc.visited, i),
     probabilities |-> Append(acc.probabilities, prob_i),
     p_eq_k |-> IF DEq(DFromInt(i), kValue) THEN prob_i ELSE acc.p_eq_k,
     p_lt_k |-> IF DLt(DFromInt(i), kValue) THEN DAdd(acc.p_lt_k, prob_i) ELSE acc.p_lt_k,
     p_lte_k |-> IF DLe(DFromInt(i), kValue) THEN DAdd(acc.p_lte_k, prob_i) ELSE acc.p_lte_k]

\* the iterations i = lo..hi
RECURSIVE hypergeometricLoop(_, _, _, _, _, _, _)
hypergeometricRest(N, K, n, kValue, lo, hi, acc) ==
    IF DOMAIN acc = {} THEN acc ELSE hypergeometricLoop(N, K, n, kValue, lo, hi, acc)

hypergeometricLoop(N, K, n, kValue, lo, hi, acc) ==
    IF lo > hi THEN acc
    ELSE IF lo = hi
         THEN hypergeometricVisit(kValue, lo, hypergeometricPMF(N, K, n, DFromInt(lo)), acc)
    ELSE hypergeometricRest(N, K, n, kValue, ((lo + hi) \div 2) + 1, hi,
                            hypergeometricLoop(N, K, n, kValue, lo, (lo + hi) \div 2, acc))

\* a calculator that never warns
precisionWarningNever(combinations_N_n, n) == FALSE

\* the condition of the toast "Advertencia de Cálculo"
precisionWarning(combinations_N_n, n) == combinations_N_n = PosInf /\ DGt(n, Zero)

\* the statements after the loop
hypergeometricComplements(kMin, kMax, combinations_N_n, n, acc) ==
    [kMin |-> kMin,
     kMax |-> kMax,
     thrown |-> \/ combinations_N_n = Thrown
                \/ \E i \in DOMAIN acc.probabilities : acc.probabilities[i] = Thrown,
     warned |-> precisionWarning(combinations_N_n, n),
     visited |-> acc.visited,
     probabilities |-> acc.probabilities,
     p_eq_k |-> acc.p_eq_k,
     p_lt_k |-> acc.p_lt_k,
     p_lte_k |-> acc.p_lte_k,
     p_gt_k |-> DSub(One, acc.p_lte_k),
     p_gte_k |-> DSub(One, acc.p_lt_k)]

hypergeometricSupport(N, K, n, kValue, kMin, kMax) ==
    hypergeometricComplements(kMin, kMax, combinations(N, n), n,
        hypergeometricLoop(N, K, n, kValue, ToInt(kMin), ToInt(kMax),
            [visited |-> <<>>, probabilities |-> <<>>,
             p_eq_k |-> Zero, p_lt_k |-> Zero, p_lte_k |-> Zero]))

\* a loop that starts at 0 whatever the population
kMinZero(N, K, n) == Zero

\* const kMin
kMinOf(N, K, n) == MathMax(Zero, DSub(n, DSub(N, K)))

\* the local variables of the calculator's calculateProbabilities(N, K, n,
\* kValue) at its return statement
hypergeometricCalculateProbabilitiesLocals(N, K, n, kValue) ==
    hypergeometricSupport(N, K, n, kValue, kMinOf(N, K, n), MathMin(n, K))

\* a moment passed on as the core returned it
NaNKept(x) == x

\* isNaN(x) ? 0 : x
NaNToZero(x) == IF IsNaN(x) THEN Zero ELSE x

\* the object it returns
hypergeometricCalculateProbabilities(N, K, n, locals) ==
    [mean |-> NaNToZero(hypergeometricMean(N, K, n)),
     variance |-> NaNToZero(hypergeometricVariance(N, K, n)),
     stdDev |-> NaNToZero(hypergeometricStdDev(N, K, n)),
     p_eq_k |-> clamp(locals.p_eq_k),
     p_lt_k |-> clamp(locals.p_lt_k),
     p_lte_k |-> clamp(locals.p_lte_k),
     p_gt_k |-> clamp(locals.p_gt_k),
     p_gte_k |-> clamp(locals.p_gte_k)]

\* the calculator's formSchema: the fields it rejects.  A field that is not a
\* number aborts the parse before the refinements run.
hypergeometricFormSchema(values) ==
    LET N == values.populationSize
        K == values.successStates
        n == values.sampleSize
        k == values.observedSuccesses
    IN  {f \in {"populationSize"} : ~IsInteger(N) \/ DLt(N, One)}
        \cup {f \in {"successStates"} : ~IsInteger(K) \/ DLt(K, Zero)}
        \cup {f \in {"sampleSize"} : ~IsInteger(n) \/ DLt(n, One)}
        \cup {f \in {"observedSuccesses"} : ~IsInteger(k) \/ DLt(k, Zero)}
        \cup IF \E v \in {N, K, n, k} : IsNaN(v) THEN {}
             ELSE {f \in {"successStates"} : ~DLe(K, N)}
                  \cup {f \in {"sampleSize"} : ~DLe(n, N)}
                  \cup {f \in {"observedSuccesses"} :
                           \/ ~DLe(k, n)
                           \/ ~DLe(k, K)
                           \/ ~DLe(DSub(n, k), DSub(N, K))}

MaxPopulation == 4

\* N = 30, whose combinations are summed in logarithms; N = 12, K = 7, n = 5,
\* k = 5, where the sum of the terms exceeds 1; a population of 2.5;
\* N = 2^52, n = 21, where combinations(N, n) is Infinity
HypergeometricProbeValues ==
    {<<DFromInt(30), Two, Two, One>>,
     <<DFromInt(12), DFromInt(7), Five, Five>>,
     <<DFrac(5, 1), One, One, One>>,
     <<TwoToThe(52), One, DFromInt(21), One>>}

HypergeometricForms ==
    {[calculator |-> "hypergeometric", populationSize |-> v[1], successStates |-> v[2],
      sampleSize |-> v[3], observedSuccesses |-> v[4]] :
        v \in (IntRange(0, MaxPopulation) \X IntRange(0, MaxPopulation)
                  \X IntRange(0, MaxPopulation) \X IntRange(0, MaxPopulation))
              \cup HypergeometricProbeValues}

\* handleSubmit with values the resolver rejects: onSubmit is not called
HypergeometricRejected ==
    /\ form.calculator = "hypergeometric"
    /\ hypergeometricFormSchema(form) # {}
    /\ errors' = hypergeometricFormSchema(form)
    /\ UNCHANGED <<library, form, isLoading, results, timer, toasts, frame, activeTab>>

\* the toasts a run shows at most
MaxToasts == 2

\* onSubmit of hypergeometric-calculator.tsx
HypergeometricSubmit ==
    /\ form.calculator = "hypergeometric"
    /\ hypergeometricFormSchema(form) = {}
    /\ ~isLoading
    /\ Len(toasts) < MaxToasts
    /\ isLoading' = TRUE
    /\ results' = None
    /\ timer' = Append(timer, form)
    /\ errors' = {}
    /\ frame' = None
    /\ UNCHANGED <<library, form, toasts, activeTab>>

\* the callback of setTimeout: a calculation that throws is reported in a
\* toast and leaves no results
HypergeometricTimeout ==
    /\ timer # <<>>
    /\ Head(timer).calculator = "hypergeometric"
    /\ timer' = Tail(timer)
    /\ frame' = hypergeometricCalculateProbabilitiesLocals(
                    Head(timer).populationSize, Head(timer).successStates,
                    Head(timer).sampleSize, Head(timer).observedSuccesses)
    /\ IF frame'.thrown
       THEN /\ toasts' = Append(toasts, "Error de Cálculo")
            /\ results' = None
       ELSE /\ toasts' = IF frame'.warned THEN Append(toasts, "Advertencia de Cálculo")
                         ELSE toasts
            /\ results' = hypergeometricCalculateProbabilities(
                              Head(timer).populationSize, Head(timer).successStates,
                              Head(timer).sampleSize, frame')
    /\ isLoading' = FALSE
    /\ UNCHANGED <<library, form, errors, activeTab>>

(***************************************************************************)
(* Calls of the hypergeometric functions of the library, and of the        *)
(* calculator's calculateProbabilities, with arguments of any kind.        *)
(***************************************************************************)
MaxArgument == 3

\* N = 30 and N = 52, whose combinations are summed in logarithms; N = 2^52, where combinations(N, 21) is Infinity; arguments
\* that are not integers or not numbers
HypergeometricProbeCalls ==
    {<<DFromInt(30), DFromInt(12), DFromInt(7), DFromInt(7)>>,
     <<DFromInt(12), DFromInt(7), Five, Five>>,
     <<DFromInt(4), Two, Two, One>>, <<DFromInt(4), Two, Two, DFromInt(3)>>,
     <<DFromInt(52), DFromInt(13), Five, Five>>,
     <<TwoToThe(52), One, DFromInt(21), One>>,
     <<TwoToThe(52), One, DFromInt(21), Zero>>,
     <<DFromInt(4), Two, Two, Half>>,
     <<DFromInt(4), Two, DFrac(5, 1), One>>,
     <<DFromInt(4), DFrac(3, 1), Two, One>>,
     <<DFrac(9, 1), Two, Two, One>>,
     <<NaN, Two, Two, One>>, <<DFromInt(4), NaN, Two, One>>,
     <<DFromInt(4), Two, NaN, One>>, <<DFromInt(4), Two, Two, NaN>>,
     <<PosInf, Two, Two, One>>, <<PosInf, PosInf, Two, One>>,
     <<PosInf, PosInf, PosInf, PosInf>>, <<DFromInt(4), Two, Two, NegInf>>}

HypergeometricQuadruples ==
    (IntRange(-1, MaxArgument) \X IntRange(-1, MaxArgument)
        \X IntRange(-1, MaxArgument) \X IntRange(-1, MaxArgument))
    \cup HypergeometricProbeCalls

\* the arguments N, K, n of the moments
HypergeometricTriples ==
    (IntRange(-1, MaxArgument + 1) \X IntRange(-1, MaxArgument + 1)
        \X IntRange(-1, MaxArgument + 1))
    \cup {<<q[1], q[2], q[3]>> : q \in HypergeometricProbeCalls}
    \cup {<<DFromInt(50), Ten, DFromInt(20)>>,
          <<Half, Zero, One>>, <<DFrac(3, 1), One, One>>, <<One, NaN, One>>,
          <<DFromInt(10), DFromInt(3), DFromInt(7)>>, <<DFromInt(7), Five, DFromInt(7)>>}

InitHypergeometric ==
    /\ pc = "ready"
    /\ args \in HypergeometricQuadruples \cup HypergeometricTriples
    /\ ret = None
    /\ aux = None
    /\ CalculatorIdle

CallHypergeometricPMF ==
    /\ pc = "ready"
    /\ Len(args) = 4
    /\ pc' = "hypergeometricPMF"
    /\ ret' = hypergeometricPMF(args[1], args[2], args[3], args[4])
    /\ UNCHANGED <<args, aux, calculator>>

\* hypergeometricMean(N, K, n)
CallHypergeometricMean ==
    /\ pc = "ready"
    /\ Len(args) = 3
    /\ pc' = "hypergeometricMean"
    /\ ret' = hypergeometricMean(args[1], args[2], args[3])
    /\ UNCHANGED <<args, aux, calculator>>

\* hypergeometricVariance(N, K, n), and hypergeometricStdDev(N, K, n) beside it
CallHypergeometricVariance ==
    /\ pc = "ready"
    /\ Len(args) = 3
    /\ pc' = "hypergeometricVariance"
    /\ ret' = hypergeometricVariance(args[1], args[2], args[3])
    /\ aux' = hypergeometricStdDev(args[1], args[2], args[3])
    /\ UNCHANGED <<args, calculator>>

\* calculateProbabilities(N, K, n, kValue) of the calculator, with integers:
\* its local variables at the return statement
CallCalculateProbabilities ==
    /\ pc = "ready"
    /\ Len(args) = 4
    /\ \A j \in 1..4 : IsInteger(args[j])
    /\ pc' = "calculateProbabilities"
    /\ ret' = hypergeometricCalculateProbabilitiesLocals(args[1], args[2], args[3], args[4])
    /\ UNCHANGED <<args, aux, calculator>>

NextHypergeometric ==
    \/ CallHypergeometricPMF
    \/ CallCalculateProbabilities
    \/ CallHypergeometricMean
    \/ CallHypergeometricVariance

SpecHypergeometric == InitHypergeometric /\ [][NextHypergeometric]_vars

(***************************************************************************)
(* The Continuous Uniform distribution of src/app/page.tsx.                *)
(***************************************************************************)
Twelve == DFromInt(12)

\* a CDF with the PDF's answer to a >= b
continuousUniformCDFZero(a, b, x) ==
    IF DGe(a, b) THEN Zero
    ELSE IF DLt(x, a) THEN Zero
    ELSE IF DGt(x, b) THEN One
    ELSE DDiv(DSub(x, a), DSub(b, a))

\* continuousUniformCDF(a, b, x)
continuousUniformCDF(a, b, x) ==
    IF DGe(a, b) THEN NaN
    ELSE IF DLt(x, a) THEN Zero
    ELSE IF DGt(x, b) THEN One
    ELSE DDiv(DSub(x, a), DSub(b, a))

\* continuousUniformPDF(a, b, x)
continuousUniformPDF(a, b, x) ==
    IF DGe(a, b) THEN Zero
    ELSE IF DGe(x, a) /\ DLe(x, b) THEN DDiv(One, DSub(b, a))
    ELSE Zero

\* the end of continuousUniformProbabilityInRange, x1 and x2 clamped to [a, b]
continuousUniformRangeClamped(a, b, x1Clamped, x2Clamped) ==
    IF DLe(x2Clamped, x1Clamped) THEN Zero
    ELSE DDiv(DSub(x2Clamped, x1Clamped), DSub(b, a))

\* continuousUniformProbabilityInRange after the swap that makes x1 <= x2
continuousUniformRangeOrdered(a, b, x1, x2) ==
    continuousUniformRangeClamped(a, b, MathMax(a, MathMin(b, x1)), MathMax(a, MathMin(b, x2)))

\* the range probability without the swap of x1 and x2
continuousUniformProbabilityInRangeUnordered(a, b, x1_val, x2_val) ==
    IF DGe(a, b) THEN Zero
    ELSE continuousUniformRangeOrdered(a, b, x1_val, x2_val)

\* continuousUniformProbabilityInRange(a, b, x1_val, x2_val)
continuousUniformProbabilityInRange(a, b, x1_val, x2_val) ==
    IF DGe(a, b) THEN Zero
    ELSE continuousUniformRangeOrdered(a, b,
             IF DGt(x1_val, x2_val) THEN x2_val ELSE x1_val,
             IF DGt(x1_val, x2_val) THEN x1_val ELSE x2_val)

\* continuousUniformMean(a, b)
continuousUniformMean(a, b) ==
    IF DGt(a, b) THEN NaN ELSE DDiv(DAdd(a, b), Two)

\* continuousUniformVariance(a, b)
continuousUniformVariance(a, b) ==
    IF DGt(a, b) THEN NaN ELSE DDiv(MathPow(DSub(b, a), 2), Twelve)

\* continuousUniformStdDev(a, b)
continuousUniformStdDev(a, b) ==
    IF DGt(a, b) THEN NaN ELSE MathSqrt(continuousUniformVariance(a, b))

(***************************************************************************)
(* The Continuous Uniform calculator,                                      *)
(* src/components/continuous-uniform-calculator.tsx.                       *)
(***************************************************************************)
\* undefined: a field of the form left empty, a result that was not computed
Undefined == [k |-> "undefined", s |-> 1, m |-> <<>>, e |-> 0]

\* v ?? d
Coalesce(v, d) == IF v = Undefined THEN d ELSE v

\* the tail probabilities of calculateMetrics
tailProbabilities(gt, lt) ==
    [prob_greater_than_x1 |-> gt,
     prob_less_than_x2 |-> lt,
     prob_sum_gt_lt |-> IF gt # Undefined \/ lt # Undefined
                        THEN DAdd(Coalesce(gt, Zero), Coalesce(lt, Zero))
                        ELSE Undefined,
     probability_x1_x2_range |-> Undefined,
     x1Swapped_range |-> Undefined,
     x2Swapped_range |-> Undefined]

\* the range probability of calculateMetrics
rangeProbability(a, b, x1Value, x2Value) ==
    [prob_greater_than_x1 |-> Undefined,
     prob_less_than_x2 |-> Undefined,
     prob_sum_gt_lt |-> Undefined,
     probability_x1_x2_range |->
        IF x1Value # Undefined /\ x2Value # Undefined
        THEN continuousUniformProbabilityInRange(a, b,
                 IF DGt(x1Value, x2Value) THEN x2Value ELSE x1Value,
                 IF DGt(x1Value, x2Value) THEN x1Value ELSE x2Value)
        ELSE Undefined,
     x1Swapped_range |-> IF x1Value # Undefined /\ x2Value # Undefined /\ DGt(x1Value, x2Value)
                         THEN x2Value ELSE Undefined,
     x2Swapped_range |-> IF x1Value # Undefined /\ x2Value # Undefined /\ DGt(x1Value, x2Value)
                         THEN x1Value ELSE Undefined]

\* the moments of calculateMetrics
uniformMoments(a, b) ==
    [mean |-> continuousUniformMean(a, b),
     variance |-> continuousUniformVariance(a, b),
     stdDev |-> continuousUniformStdDev(a, b)]

\* calculateMetrics(a, b, currentActiveTab, data)
calculateMetrics(a, b, currentActiveTab, data) ==
    uniformMoments(a, b) @@
    (IF currentActiveTab = "tail_probabilities"
     THEN tailProbabilities(
              IF data.x1Value # Undefined
              THEN DSub(One, continuousUniformCDF(a, b, data.x1Value)) ELSE Undefined,
              IF data.x2Value # Undefined
              THEN continuousUniformCDF(a, b, data.x2Value) ELSE Undefined)
     ELSE rangeProbability(a, b, data.x1Value, data.x2Value))

\* z.coerce.number() of a field: Number(undefined) is NaN
Coerced(v) == IF v = Undefined THEN NaN ELSE v

\* the fields baseSchema rejects.  NaN is not a number to zod and ends the
\* parse; a number that is not finite is reported and the refinement of the
\* bounds still runs.
uniformFormSchema(values) ==
    LET a == Coerced(values.lowerBound)
        b == Coerced(values.upperBound)
        optional == {f \in {"x1Value", "x2Value"} : values[f] # Undefined}
        aborted == IsNaN(a) \/ IsNaN(b) \/ \E f \in optional : IsNaN(values[f])
    IN  {f \in {"lowerBound", "upperBound"} : ~IsFinite(Coerced(values[f]))}
        \cup {f \in optional : ~IsFinite(values[f])}
        \cup (IF ~aborted /\ ~DGt(b, a) THEN {"upperBound"} ELSE {})

MaxBound == 10

\* the values of a bound: the ends of [0, MaxBound], Infinity, and none
UniformBoundValues == {Zero, DFromInt(MaxBound), PosInf, Undefined}

\* the values of x1 and x2: none, below, inside and above [0, MaxBound]
UniformXValues ==
    {Undefined, DFromInt(-5), Two, DFromInt(MaxBound - 2), DFromInt(MaxBound + 5)}

UniformForms ==
    {[calculator |-> "uniform", lowerBound |-> a, upperBound |-> b,
      x1Value |-> x1, x2Value |-> x2] :
        a \in UniformBoundValues, b \in UniformBoundValues,
        x1 \in UniformXValues, x2 \in UniformXValues}

\* onValueChange of the Tabs: setActiveTab
UniformSetActiveTab ==
    /\ form.calculator = "uniform"
    /\ activeTab' \in {"tail_probabilities", "range_probability"} \ {activeTab}
    /\ UNCHANGED <<library, form, errors, isLoading, results, timer, toasts, frame>>

\* handleSubmit with values the resolver rejects: onSubmit is not called
UniformRejected ==
    /\ form.calculator = "uniform"
    /\ uniformFormSchema(form) # {}
    /\ errors' = uniformFormSchema(form)
    /\ UNCHANGED <<library, form, isLoading, results, timer, toasts, frame, activeTab>>

\* onSubmit of continuous-uniform-calculator.tsx: the callback keeps the
\* values and the tab of the render that made it
UniformSubmit ==
    /\ form.calculator = "uniform"
    /\ uniformFormSchema(form) = {}
    /\ ~isLoading
    /\ isLoading' = TRUE
    /\ results' = None
    /\ timer' = Append(timer, [calculator |-> "uniform", currentValues |-> form,
                               activeTab |-> activeTab])
    /\ errors' = {}
    /\ frame' = None
    /\ UNCHANGED <<library, form, toasts, activeTab>>

\* the callback of setTimeout: calculateMetrics does not throw.  frame keeps
\* the values and the tab the callback had captured.
UniformTimeout ==
    /\ timer # <<>>
    /\ Head(timer).calculator = "uniform"
    /\ timer' = Tail(timer)
    /\ frame' = Head(timer)
    /\ results' = calculateMetrics(Head(timer).currentValues.lowerBound,
                                   Head(timer).currentValues.upperBound,
                                   Head(timer).activeTab, Head(timer).currentValues)
    /\ isLoading' = FALSE
    /\ UNCHANGED <<library, form, errors, toasts, activeTab>>

\* a value that a condition takes as true: not undefined, NaN or 0
Truthy(v) == v # Undefined /\ ~IsNaN(v) /\ ~IsZero(v)

\* the rows of the results table that show a probability under a label made
\* from the form's values
greaterRowShown(tab, res, values) ==
    /\ tab = "tail_probabilities"
    /\ res.prob_greater_than_x1 # Undefined
    /\ values.x1Value # Undefined

lessRowShown(tab, res, values) ==
    /\ tab = "tail_probabilities"
    /\ res.prob_less_than_x2 # Undefined
    /\ values.x2Value # Undefined

rangeRowShown(tab, res, values) ==
    /\ tab = "range_probability"
    /\ res.probability_x1_x2_range # Undefined
    /\ values.x1Value # Undefined
    /\ values.x2Value # Undefined

\* the two values in the label of the range row, P(first <= X <= second)
rangeRowLabel(res, values) ==
    <<IF Truthy(res.x1Swapped_range) THEN res.x1Swapped_range ELSE values.x1Value,
      IF Truthy(res.x2Swapped_range) THEN res.x2Swapped_range ELSE values.x2Value>>

\* the two values the alert below the table names
rangeAlertInterval(res, values) ==
    <<Coalesce(res.x1Swapped_range, values.x1Value),
      Coalesce(res.x2Swapped_range, values.x2Value)>>

\* the values typed into the fields x1 and x2
UniformEditValues == {Undefined, Zero, Two, DFromInt(5)}

\* onChange of the inputs x1Value and x2Value
UniformEdit ==
    /\ form.calculator = "uniform"
    /\ \E f \in {"x1Value", "x2Value"} : \E v \in UniformEditValues \ {form[f]} :
           form' = [form EXCEPT ![f] = v]
    /\ UNCHANGED <<library, errors, isLoading, results, timer, toasts, frame, activeTab>>

\* the Continuous Uniform calculator with its fields edited between
\* submissions, for the interval [0, 10] and for the bounds 10, 0 that the
\* form rejects
InitUniformForm ==
    /\ pc = "ready" /\ args = <<>> /\ ret = None /\ aux = None
    /\ form \in {[calculator |-> "uniform", lowerBound |-> ab[1], upperBound |-> ab[2],
                   x1Value |-> x1, x2Value |-> x2] :
                      ab \in {<<Zero, Ten>>, <<Ten, Zero>>},
                      x1 \in UniformEditValues, x2 \in UniformEditValues}
    /\ errors = {}
    /\ isLoading = FALSE
    /\ results = None
    /\ timer = <<>>
    /\ toasts = <<>>
    /\ frame = None
    /\ activeTab = "tail_probabilities"

NextUniformForm ==
    \/ UniformSetActiveTab
    \/ UniformEdit
    \/ UniformRejected
    \/ UniformSubmit
    \/ UniformTimeout

SpecUniformForm == InitUniformForm /\ [][NextUniformForm]_vars

(***************************************************************************)
(* Calls of the Continuous Uniform functions of the library.               *)
(***************************************************************************)
\* 2^1023: b - a overflows for a = -2^1023, b = 2^1023
Huge == TwoToThe(1023)

\* the ends of an interval
UniformEnds ==
    {DFromInt(-5), Zero, Two, Ten, DNeg(Huge), Huge, NaN, PosInf, NegInf}

\* the points x, x1, x2
UniformPoints ==
    UniformEnds \cup {DFrac(1, 3), DFrac(5, 1), DFromInt(8), DFromInt(15)}

UniformTriples == UniformEnds \X UniformEnds \X UniformPoints

UniformQuadruples ==
    {Zero, Two, Ten, DNeg(Huge), NaN, PosInf}
        \X {Zero, Ten, Huge, NaN, PosInf}
        \X UniformPoints \X UniformPoints

InitUniform ==
    /\ pc = "ready"
    /\ args \in UniformTriples \cup UniformQuadruples
    /\ ret = None
    /\ aux = None
    /\ CalculatorIdle

CallContinuousUniformCDF ==
    /\ pc = "ready"
    /\ Len(args) = 3
    /\ pc' = "continuousUniformCDF"
    /\ ret' = continuousUniformCDF(args[1], args[2], args[3])
    /\ UNCHANGED <<args, aux, calculator>>

CallContinuousUniformPDF ==
    /\ pc = "ready"
    /\ Len(args) = 3
    /\ pc' = "continuousUniformPDF"
    /\ ret' = continuousUniformPDF(args[1], args[2], args[3])
    /\ UNCHANGED <<args, aux, calculator>>

\* continuousUniformProbabilityInRange(a, b, x1, x2), and
\* continuousUniformProbabilityInRange(a, b, x2, x1) beside it
CallContinuousUniformProbabilityInRange ==
    /\ pc = "ready"
    /\ Len(args) = 4
    /\ pc' = "continuousUniformProbabilityInRange"
    /\ ret' = continuousUniformProbabilityInRange(args[1], args[2], args[3], args[4])
    /\ aux' = continuousUniformProbabilityInRange(args[1], args[2], args[4], args[3])
    /\ UNCHANGED <<args, calculator>>

NextUniform ==
    \/ CallContinuousUniformCDF
    \/ CallContinuousUniformPDF
    \/ CallContinuousUniformProbabilityInRange

SpecUniform == InitUniform /\ [][NextUniform]_vars

(***************************************************************************)
(* The normal distribution: erf by Abramowitz and Stegun 7.1.26, and the   *)
(* CDF, the PDF and the z-score built on it.                               *)
(***************************************************************************)
a1 == [k |-> "fin", s |-> 1, m |-> <<6782, 7089, 12812, 1043>>, e |-> -54]
a2 == [k |-> "fin", s |-> -1, m |-> <<5225, 12528, 4892, 1165>>, e |-> -54]
a3 == [k |-> "fin", s |-> 1, m |-> <<8535, 5867, 8645, 1455>>, e |-> -52]
a4 == [k |-> "fin", s |-> -1, m |-> <<3129, 7173, 453, 1488>>, e |-> -52]
a5 == [k |-> "fin", s |-> 1, m |-> <<8493, 2390, 14404, 1086>>, e |-> -52]
erf_p == [k |-> "fin", s |-> 1, m |-> <<15244, 9461, 13322, 1341>>, e |-> -54]
MathPI == [k |-> "fin", s |-> 1, m |-> <<11544, 4368, 8117, 1608>>, e |-> -51]

\* the polynomial with the leading coefficient a5 left out
erfPolynomialTruncated(t) ==
    DAdd(DMul(DAdd(DMul(DAdd(DMul(DMul(a4, t), t), a3), t), a2), t), a1)

\* ((((a5 * t + a4) * t) + a3) * t + a2) * t + a1
erfPolynomial(t) ==
    DAdd(DMul(DAdd(DMul(DAdd(DMul(DAdd(DMul(a5, t), a4), t), a3), t), a2), t), a1)

\* 1.0 - polynomial * t * Math.exp(-x * x), for x already made absolute
erfY(x, t) == DSub(One, DMul(DMul(erfPolynomial(t), t), MathExp(DMul(DNeg(x), x))))

\* erf for the absolute value x, with the sign saved before
erfSigned(sign, x) ==
    \* t = 1.0 / (1.0 + p * x)
    LET y == CHOOSE y \in {erfY(x, CHOOSE t \in {DDiv(One, DAdd(One, DMul(erf_p, x)))} : TRUE)} : TRUE
    IN  IF sign = 1 THEN y ELSE DNeg(y)

erf(x) == erfSigned(IF DGe(x, Zero) THEN 1 ELSE -1, DAbs(x))

\* z = (x - mean) / stdDev
zOf(x, mean, stdDev) == DDiv(DSub(x, mean), stdDev)

normalCDF(x, mean, stdDev) ==
    IF DLe(stdDev, Zero) THEN NaN
    ELSE DMul(Half, DAdd(One, erf(DDiv(zOf(x, mean, stdDev), MathSqrt(Two)))))

normalPDF(x, mean, stdDev) ==
    IF DLe(stdDev, Zero) THEN NaN
    ELSE LET exponent == DMul(DNeg(Half), MathPow(zOf(x, mean, stdDev), 2))
             coefficient == DDiv(One, DMul(stdDev, MathSqrt(DMul(Two, MathPI))))
         IN  DMul(coefficient, MathExp(exponent))

zScore(x, mean, stdDev) == IF DLe(stdDev, Zero) THEN NaN ELSE zOf(x, mean, stdDev)

(***************************************************************************)
(* Calls of the normal distribution's functions.                           *)
(***************************************************************************)
\* the smallest positive number, 2^-1074
MinValue == [k |-> "fin", s |-> 1, m |-> <<1>>, e |-> -1074]

NormalPoints ==
    {Zero, One, DFromInt(-3), DFrac(5, 1), Huge, DNeg(Huge), MinValue, NaN, PosInf}

NormalDeviations ==
    {DFromInt(-1), Zero, MinValue, Half, One, Two, Huge, PosInf, NegInf, NaN}

NormalTriples == NormalPoints \X NormalPoints \X NormalDeviations

InitNormal ==
    /\ pc = "ready" /\ args \in NormalTriples /\ ret = None /\ aux = None
    /\ CalculatorIdle

CallNormalCDF ==
    /\ pc = "ready"
    /\ pc' = "normalCDF"
    /\ ret' = normalCDF(args[1], args[2], args[3])
    /\ aux' = erf(Zero)
    /\ UNCHANGED <<args, calculator>>

CallNormalPDF ==
    /\ pc = "ready"
    /\ pc' = "normalPDF"
    /\ ret' = normalPDF(args[1], args[2], args[3])
    /\ UNCHANGED <<args, aux, calculator>>

CallZScore ==
    /\ pc = "ready"
    /\ pc' = "zScore"
    /\ ret' = zScore(args[1], args[2], args[3])
    /\ UNCHANGED <<args, aux, calculator>>

NextNormal ==
    \/ CallNormalCDF
    \/ CallNormalPDF
    \/ CallZScore

SpecNormal == InitNormal /\ [][NextNormal]_vars

(***************************************************************************)
(* The Normal calculator (part_004).                                       *)
(***************************************************************************)
\* the fields formSchema rejects.  NaN is not a number to zod and ends the
\* parse; a number outside a field's range is reported and the refinement
\* still runs.
normalFormSchema(values) ==
    LET optional == {f \in {"xValue", "x1Value", "x2Value"} : values[f] # Undefined}
        aborted == \/ IsNaN(Coerced(values.mean)) \/ IsNaN(Coerced(values.stdDev))
                   \/ \E f \in optional : IsNaN(values[f])
    IN  {f \in {"mean"} : ~IsFinite(Coerced(values.mean))}
        \cup {f \in {"stdDev"} : ~DGt(Coerced(values.stdDev), Zero)}
        \cup {f \in optional : ~IsFinite(values[f])}
        \cup (IF /\ ~aborted
                 /\ values.x1Value # Undefined /\ values.x2Value # Undefined
                 /\ DGe(values.x1Value, values.x2Value)
              THEN {"x2Value"} ELSE {})

\* the optional fields of calculatedResults, none of them set
normalOptional ==
    [zScoreX |-> Undefined, pdfX |-> Undefined, prob_less_than_x |-> Undefined,
     prob_greater_than_x |-> Undefined, prob_between_x1_x2 |-> Undefined]

\* calculatedResults for the tab "single_x" with xValue given
normalSingle(xValue, mean, stdDev, prob_less_than_x) ==
    [zScoreX |-> zScore(xValue, mean, stdDev),
     pdfX |-> normalPDF(xValue, mean, stdDev),
     prob_less_than_x |-> prob_less_than_x,
     prob_greater_than_x |-> DSub(One, prob_less_than_x),
     prob_between_x1_x2 |-> Undefined]

\* calculatedResults for the tab "range_x1_x2" with x1Value and x2Value given
normalRange(prob_less_than_x1, prob_less_than_x2) ==
    [normalOptional EXCEPT !.prob_between_x1_x2 = DSub(prob_less_than_x2, prob_less_than_x1)]

\* the object the callback of onSubmit passes to setResults
normalCalculatedResults(values, tab) ==
    [mean |-> values.mean, variance |-> MathPow(values.stdDev, 2), stdDev |-> values.stdDev]
    @@ (IF tab = "single_x" /\ values.xValue # Undefined
        THEN normalSingle(values.xValue, values.mean, values.stdDev,
                          normalCDF(values.xValue, values.mean, values.stdDev))
        ELSE IF tab = "range_x1_x2" /\ values.x1Value # Undefined /\ values.x2Value # Undefined
        THEN normalRange(normalCDF(values.x1Value, values.mean, values.stdDev),
                         normalCDF(values.x2Value, values.mean, values.stdDev))
        ELSE normalOptional)

\* mean 0; stdDev 1, and 0, which the form rejects; x1 = 0 with x2 = -1 is
\* rejected as well
NormalForms ==
    {[calculator |-> "normal", mean |-> Zero, stdDev |-> sd,
      xValue |-> x, x1Value |-> x1, x2Value |-> x2] :
        sd \in {One, Zero}, x \in {Undefined, One},
        x1 \in {Undefined, Zero}, x2 \in {Undefined, One, DFromInt(-1)}}

\* onValueChange of the Tabs: setActiveTab
NormalSetActiveTab ==
    /\ form.calculator = "normal"
    /\ activeTab' \in {"single_x", "range_x1_x2"} \ {activeTab}
    /\ UNCHANGED <<library, form, errors, isLoading, results, timer, toasts, frame>>

\* handleSubmit with values the resolver rejects: onSubmit is not called
NormalRejected ==
    /\ form.calculator = "normal"
    /\ normalFormSchema(form) # {}
    /\ errors' = normalFormSchema(form)
    /\ UNCHANGED <<library, form, isLoading, results, timer, toasts, frame, activeTab>>

\* onSubmit of part_004: the callback keeps the values and the tab of the
\* render that made it
NormalSubmit ==
    /\ form.calculator = "normal"
    /\ normalFormSchema(form) = {}
    /\ ~isLoading
    /\ isLoading' = TRUE
    /\ results' = None
    /\ timer' = Append(timer, [calculator |-> "normal", values |-> form,
                               activeTab |-> activeTab])
    /\ errors' = {}
    /\ frame' = None
    /\ UNCHANGED <<library, form, toasts, activeTab>>

\* the callback of setTimeout: the calculation does not throw
NormalTimeout ==
    /\ timer # <<>>
    /\ Head(timer).calculator = "normal"
    /\ timer' = Tail(timer)
    /\ frame' = Head(timer)
    /\ results' = normalCalculatedResults(Head(timer).values, Head(timer).activeTab)
    /\ isLoading' = FALSE
    /\ UNCHANGED <<library, form, errors, toasts, activeTab>>

(***************************************************************************)
(* The calculators of the page, one form submitted at a time.              *)
(***************************************************************************)
InitCalculators ==
    /\ pc = "ready" /\ args = <<>> /\ ret = None /\ aux = None
    /\ form \in PoissonForms \cup HypergeometricForms \cup UniformForms \cup NormalForms
    /\ errors = {}
    /\ isLoading = FALSE
    /\ results = None
    /\ timer = <<>>
    /\ toasts = <<>>
    /\ frame = None
    /\ activeTab = IF form.calculator = "normal" THEN "single_x" ELSE "tail_probabilities"

NextCalculators ==
    \/ PoissonRejected
    \/ PoissonSubmit
    \/ PoissonTimeout
    \/ LegacySubmit
    \/ HypergeometricRejected
    \/ HypergeometricSubmit
    \/ HypergeometricTimeout
    \/ UniformSetActiveTab
    \/ UniformRejected
    \/ UniformSubmit
    \/ UniformTimeout
    \/ NormalSetActiveTab
    \/ NormalRejected
    \/ NormalSubmit
    \/ NormalTimeout

SpecCalculators == InitCalculators /\ [][NextCalculators]_vars

\* the callback of the oldest pending setTimeout is run: the step of
\* PoissonTimeout, HypergeometricTimeout, UniformTimeout or NormalTimeout
TimerFires == timer # <<>> /\ timer' = Tail(timer)

\* a timer that has been set fires
SpecCalculatorsFair == SpecCalculators /\ WF_timer(TimerFires)

(***************************************************************************)
(* Properties of the calculators' results.                                 *)
(***************************************************************************)
\* the probabilities of a results object
Probabilities(r) ==
    {r[f] : f \in DOMAIN r \cap {"p_eq_x", "p_lt_x", "p_lte_x", "p_gt_x", "p_gte_x",
                                 "p_eq_k", "p_lt_k", "p_lte_k", "p_gt_k", "p_gte_k"}}

\* C9: every probability the Poisson and the Hypergeometric calculator return
\* is a number in [0, 1], not NaN.
C9_UnitInterval ==
    form.calculator \in {"poisson", "legacy", "hypergeometric"} /\ results # None =>
        /\ Cardinality(DOMAIN results) = 8
        /\ \A p \in Probabilities(results) : IsFinite(p) /\ DGe(p, Zero) /\ DLe(p, One)

\* the hypergeometric calculator has summed P(X <= k) to more than 1, so that
\* 1 - P(X <= k) is negative, and has returned 1 and 0
C9_Witness ==
    /\ form.calculator = "hypergeometric"
    /\ results # None
    /\ DGt(frame.p_lte_k, One) /\ DLt(frame.p_gt_k, Zero)
    /\ results.p_lte_k = One /\ results.p_gt_k = Zero

\* the probabilities of the Continuous Uniform calculator's results
UniformProbabilities(r) ==
    {r[f] : f \in {"prob_greater_than_x1", "prob_less_than_x2", "prob_sum_gt_lt",
                   "probability_x1_x2_range"}} \ {Undefined}

\* C10: every probability of the Continuous Uniform calculator's results,
\* P(X > x1), P(X < x2), their sum and the range probability, is a number in
\* [0, 1].
C10_UniformUnitInterval ==
    form.calculator = "uniform" /\ results # None =>
        \A p \in UniformProbabilities(results) : IsFinite(p) /\ DGe(p, Zero) /\ DLe(p, One)

(***************************************************************************)
(* Properties of the hypergeometric functions.                             *)
(***************************************************************************)
\* hypergeometricPMF has been called with N, K, n, k
PMFCalled == pc = "hypergeometricPMF"

\* an argument is negative or no integer, or the combination is impossible
ImpossibleArguments(N, K, n, k) ==
    \/ \E v \in {N, K, n, k} : DLt(v, Zero) \/ ~IsInteger(v)
    \/ DGt(K, N) \/ DGt(n, N) \/ DGt(k, n) \/ DGt(k, K)
    \/ DGt(DSub(n, k), DSub(N, K))

\* C11: hypergeometricPMF returns 0 (no NaN, no error) when one of N, K, n, k
\* is negative or not an integer, or K > N, n > N, k > n, k > K or
\* n - k > N - K; what it returns is always a number in [0, 1].
C11_PMFGuard ==
    PMFCalled =>
        /\ IsFinite(ret) /\ DGe(ret, Zero) /\ DLe(ret, One)
        /\ ImpossibleArguments(args[1], args[2], args[3], args[4]) => ret = Zero

\* k = 0.5 with N = 4, K = 2, n = 2, which are valid, was answered with 0
C11_Witness ==
    /\ PMFCalled
    /\ args = <<DFromInt(4), Two, Two, Half>>
    /\ ret = Zero

\* N >= 0, 0 <= K <= N and 0 <= n <= N are integers
ValidPopulation(N, K, n) ==
    /\ IsInteger(N) /\ IsInteger(K) /\ IsInteger(n)
    /\ DGe(N, Zero) /\ DGe(K, Zero) /\ DLe(K, N) /\ DGe(n, Zero) /\ DLe(n, N)

\* the ends of the support
SupportMin(N, K, n) == MathMax(Zero, DSub(n, DSub(N, K)))
SupportMax(N, K, n) == MathMin(n, K)

\* the integers lo, lo + 1, ..., hi in a sequence
Ascending(lo, hi) == [j \in 1..(hi - lo + 1) |-> lo + j - 1]

\* C12: for integers N >= 0, 0 <= K <= N, 0 <= n <= N the support
\* [kMin, kMax] is not empty, an integer i passes the first if of
\* hypergeometricPMF exactly if kMin <= i <= kMax, and the calculator's loop
\* evaluates the PMF at the indices kMin..kMax and at no other.
C12_Support ==
    pc \in {"hypergeometricPMF", "calculateProbabilities"}
    /\ ValidPopulation(args[1], args[2], args[3]) /\ IsInteger(args[4]) =>
        \E kMin \in {SupportMin(args[1], args[2], args[3])} :
        \E kMax \in {SupportMax(args[1], args[2], args[3])} :
            /\ DLe(kMin, kMax)
            /\ ~hypergeometricPMFRejects(args[1], args[2], args[3], args[4])
                   <=> (DLe(kMin, args[4]) /\ DLe(args[4], kMax))
            /\ pc = "calculateProbabilities" =>
                   ret.visited = Ascending(ToInt(kMin), ToInt(kMax))

\* N = 3, K = 2, n = 2: the support is 1..2, the guard refuses k = 0, and the
\* loop has visited 1 and 2
C12_Witness ==
    /\ pc = "calculateProbabilities"
    /\ args = <<DFromInt(3), Two, Two, Zero>>
    /\ hypergeometricPMFRejects(args[1], args[2], args[3], args[4])
    /\ ret.visited = <<1, 2>>

\* calculateProbabilities has returned for N >= 1, 0 <= K <= N, 1 <= n <= N
\* and a k at or above kMax: p_lte_k is the sum of the PMF over the support
SupportSummed ==
    /\ pc = "calculateProbabilities"
    /\ ValidPopulation(args[1], args[2], args[3])
    /\ DGe(args[1], One) /\ DGe(args[3], One)
    /\ DGe(args[4], ret.kMax)

C14_SinglePass ==
    pc = "calculateProbabilities" =>
        /\ ret.visited = Ascending(ToInt(ret.kMin), ToInt(ret.kMax))
        /\ Len(ret.probabilities) = Len(ret.visited)
        /\ ret.p_lte_k = DAdd(ret.p_lt_k, ret.p_eq_k)
        /\ ret.p_gt_k = DSub(One, ret.p_lte_k)
        /\ ret.p_gte_k = DSub(One, ret.p_lt_k)

\* k = 1 inside the support 0..2 of N = 4, K = 2, n = 2, with three terms
\* evaluated and P(X = 1) > 0
C14_Witness ==
    /\ pc = "calculateProbabilities"
    /\ args = <<DFromInt(4), Two, Two, One>>
    /\ ret.visited = <<0, 1, 2>>
    /\ DGt(ret.p_eq_k, Zero) /\ DGt(ret.p_lt_k, Zero)
    /\ ret.p_lte_k = DAdd(ret.p_lt_k, ret.p_eq_k)

\* C15: where combinations(N, n) is Infinity the calculator shows the
\* precision warning and still returns results, and every value of the PMF
\* is 0, not NaN.
C15_Overflow ==
    form.calculator = "hypergeometric" /\ frame # None =>
        \A c \in {combinations(form.populationSize, form.sampleSize)} :
            c = PosInf =>
                /\ toasts # <<>>
                /\ toasts[Len(toasts)] = "Advertencia de Cálculo"
                /\ results # None
                /\ frame.probabilities # <<>>
                /\ \A j \in DOMAIN frame.probabilities : frame.probabilities[j] = Zero

\* N = 2^52, K = 1, n = 21, k = 1: the warning is shown, both terms are 0
C15_Witness ==
    /\ form.calculator = "hypergeometric"
    /\ form.populationSize = TwoToThe(52)
    /\ frame # None
    /\ frame.warned
    /\ toasts = <<"Advertencia de Cálculo">>
    /\ results # None
    /\ frame.probabilities = <<Zero, Zero>>

\* a and b are the same value, or numbers within 1e-9 * max(1, |b|) of each other
Close(a, b) ==
    a = b \/ DLe(DAbs(DSub(a, b)), DMul(Tolerance, MathMax(One, DAbs(b))))

\* n * K / N and n * (K/N) * ((N-K)/N) * ((N-n)/(N-1)), evaluated in doubles
ClosedFormMean(N, K, n) == DDiv(DMul(n, K), N)
ClosedFormVariance(N, K, n) ==
    DMul(DMul(DMul(n, DDiv(K, N)), DDiv(DSub(N, K), N)), DDiv(DSub(N, n), DSub(N, One)))

\* C16: hypergeometricMean(N, K, n) is n * K / N for N > 0, and 4 for N = 50,
\* K = 10, n = 20; hypergeometricVariance(N, K, n) is
\* n * (K/N) * ((N-K)/N) * ((N-n)/(N-1)) for N > 1, with 0 in place of a
\* negative value, and never negative; the square of hypergeometricStdDev is
\* the variance.
C16_ClosedForms ==
    /\ pc = "hypergeometricMean" /\ DGt(args[1], Zero) =>
           /\ Close(ret, ClosedFormMean(args[1], args[2], args[3]))
           /\ args = <<DFromInt(50), Ten, DFromInt(20)>> => ret = DFromInt(4)
    /\ pc = "hypergeometricVariance" /\ DGt(args[1], One) =>
           /\ \A v \in {ClosedFormVariance(args[1], args[2], args[3])} :
                  \/ IsNaN(v)
                  \/ DLt(v, Zero) /\ ret = Zero
                  \/ DGe(v, Zero) /\ Close(ret, v)
           /\ ~DLt(ret, Zero)
           /\ Close(DMul(aux, aux), ret)

\* hypergeometricMean(50, 10, 20) has returned 4
C16_Witness ==
    /\ pc = "hypergeometricMean"
    /\ args = <<DFromInt(50), Ten, DFromInt(20)>>
    /\ ret = DFromInt(4)

\* C17: hypergeometricMean returns NaN exactly when N <= 0,
\* hypergeometricVariance exactly when N <= 1, hypergeometricStdDev exactly
\* when the variance is NaN; none returns 0 where the value is undefined.
C17_UndefinedIsNaN ==
    /\ pc = "hypergeometricMean" => (IsNaN(ret) <=> DLe(args[1], Zero))
    /\ pc = "hypergeometricVariance" =>
           /\ IsNaN(ret) <=> DLe(args[1], One)
           /\ IsNaN(aux) <=> IsNaN(ret)
           /\ IsNaN(ClosedFormVariance(args[1], args[2], args[3])) => IsNaN(ret)

(***************************************************************************)
(* Properties of the Continuous Uniform functions.                         *)
(***************************************************************************)
\* C18: for a >= b continuousUniformPDF returns 0 and continuousUniformCDF
\* returns NaN, whatever x is.
C18_InvalidInterval ==
    DGe(args[1], args[2]) =>
        /\ pc = "continuousUniformPDF" => ret = Zero
        /\ pc = "continuousUniformCDF" => IsNaN(ret)

\* continuousUniformCDF(10, 0, 2) has returned NaN
C18_Witness ==
    /\ pc = "continuousUniformCDF"
    /\ args = <<Ten, Zero, Two>>
    /\ IsNaN(ret)

\* C19: for a < b continuousUniformCDF(a, b, x) is 0 for x < a,
\* (x - a) / (b - a) for a <= x <= b and 1 for x > b; it is in [0, 1] and does
\* not decrease in x; CDF(0, 10, -5) = 0 and CDF(0, 10, 15) = 1.
C19_CDF ==
    pc = "continuousUniformCDF" /\ DLt(args[1], args[2]) =>
        /\ DLt(args[3], args[1]) => ret = Zero
        /\ DGe(args[3], args[1]) /\ DLe(args[3], args[2]) =>
               ret = DDiv(DSub(args[3], args[1]), DSub(args[2], args[1]))
        /\ DGt(args[3], args[2]) => ret = One
        /\ DGe(ret, Zero) /\ DLe(ret, One)
        /\ \A y \in UniformPoints :
               DLe(args[3], y) => DLe(ret, continuousUniformCDF(args[1], args[2], y))

\* C20: continuousUniformProbabilityInRange(a, b, x1, x2) and
\* continuousUniformProbabilityInRange(a, b, x2, x1) are the same, 0.6 for
\* (0, 10, 8, 2) and (0, 10, 2, 8), and the same as what the calculator
\* computes after its own swap.
C20_Unordered ==
    pc = "continuousUniformProbabilityInRange" =>
        /\ ret = aux
        /\ rangeProbability(args[1], args[2], args[3], args[4]).probability_x1_x2_range = ret
        /\ args = <<Zero, Ten, DFromInt(8), Two>> =>
               ret = DDiv(DFromInt(6), Ten)

\* continuousUniformProbabilityInRange(0, 10, 8, 2) has returned 0.6
C20_Witness ==
    /\ pc = "continuousUniformProbabilityInRange"
    /\ args = <<Zero, Ten, DFromInt(8), Two>>
    /\ ret = DDiv(DFromInt(6), Ten)
    /\ aux = ret

\* x clamped into [a, b]
ClampInto(a, b, x) == MathMax(a, MathMin(b, x))

\* C21: for a < b continuousUniformProbabilityInRange orders x1 and x2,
\* clamps each into [a, b] and returns (x2_clamped - x1_clamped) / (b - a), or
\* 0 when x2_clamped <= x1_clamped; the result is in [0, 1], 0 when both
\* bounds are on the same side outside [a, b], and 1 when they cover [a, b].
C21_RangeProbability ==
    pc = "continuousUniformProbabilityInRange" /\ DLt(args[1], args[2]) =>
        \A lo \in {ClampInto(args[1], args[2],
                              IF DGt(args[3], args[4]) THEN args[4] ELSE args[3])} :
        \A hi \in {ClampInto(args[1], args[2],
                              IF DGt(args[3], args[4]) THEN args[3] ELSE args[4])} :
            /\ ret = IF DLe(hi, lo) THEN Zero
                     ELSE DDiv(DSub(hi, lo), DSub(args[2], args[1]))
            /\ DGe(ret, Zero) /\ DLe(ret, One)
            /\ (DLt(args[3], args[1]) /\ DLt(args[4], args[1])) => ret = Zero
            /\ (DGt(args[3], args[2]) /\ DGt(args[4], args[2])) => ret = Zero
            /\ (DLe(MathMin(args[3], args[4]), args[1])
                   /\ DGe(MathMax(args[3], args[4]), args[2])) => ret = One

\* continuousUniformCDF(a, b, x2) - continuousUniformCDF(a, b, x1)
CDFDifference(a, b, x1, x2) ==
    DSub(continuousUniformCDF(a, b, x2), continuousUniformCDF(a, b, x1))

\* C26: for a < b and x1 <= x2 continuousUniformProbabilityInRange(a, b, x1,
\* x2) is continuousUniformCDF(a, b, x2) - continuousUniformCDF(a, b, x1)
\* (within 1e-9: the two round differently); for a >= b the range function
\* returns 0 and the difference is NaN.
C26_RangeIsCDFDifference ==
    pc = "continuousUniformProbabilityInRange" =>
        /\ DLt(args[1], args[2]) /\ DLe(args[3], args[4]) =>
               Close(ret, CDFDifference(args[1], args[2], args[3], args[4]))
        /\ DGe(args[1], args[2]) =>
               ret = Zero /\ IsNaN(CDFDifference(args[1], args[2], args[3], args[4]))

\* a call of one of the normal distribution's three functions has returned
NormalCalled == pc \in {"normalCDF", "normalPDF", "zScore"}

\* C22: normalCDF, normalPDF and zScore return NaN for every x and mean
\* whenever stdDev <= 0, and a number that is not NaN whenever stdDev > 0 and
\* x and mean are finite; zScore then equals (x - mean) / stdDev.
C22_NormalDomain ==
    NormalCalled =>
        /\ DLe(args[3], Zero) => IsNaN(ret)
        /\ DGt(args[3], Zero) /\ IsFinite(args[1]) /\ IsFinite(args[2]) =>
               /\ ~IsNaN(ret)
               /\ pc = "zScore" => ret = DDiv(DSub(args[1], args[2]), args[3])

\* 1.5e-7, the accuracy of the approximation of erf
ErfAccuracy == [k |-> "fin", s |-> 1, m |-> <<886, 4150, 8031, 1288>>, e |-> -75]

\* C23: normalCDF(mean, mean, stdDev) is within 1.5e-7 of 0.5 for every finite
\* mean and every stdDev > 0: erf(0) computed from the coefficients a1..a5 is
\* within 3e-7 of 0.
C23_Median ==
    pc = "normalCDF" =>
        /\ DLe(DAbs(aux), DMul(Two, ErfAccuracy))
        /\ IsFinite(args[1]) /\ args[2] = args[1] /\ DGt(args[3], Zero) =>
               DLe(DAbs(DSub(ret, Half)), ErfAccuracy)

\* normalCDF(1, 1, 2) has returned 0.5000000005, not 0.5: erf(0) is 1e-9
C23_Witness ==
    /\ pc = "normalCDF"
    /\ args = <<One, One, Two>>
    /\ ret = [k |-> "fin", s |-> 1, m |-> <<14384, 274, 0, 1024>>, e |-> -53]
    /\ aux = [k |-> "fin", s |-> 1, m |-> <<0, 0, 8382, 1099>>, e |-> -82]

\* C24: every summation loop ends within a limit derived from the parameters:
\* for finite lambda >= 0 and an integer x >= 0 the Poisson loop runs at most
\* max(x + 1, ceil(lambda + 10 * sqrt(lambda) + 10)) iterations, and the
\* Hypergeometric loop runs exactly kMax - kMin + 1 <= n + 1 iterations.
C24_LoopBounds ==
    /\ form.calculator = "poisson" /\ IsFinite(form.lambda) /\ frame # None =>
           /\ frame # Diverges
           /\ DLe(DFromInt(Len(frame.probabilities)), frame.upperLimit)
    /\ form.calculator = "hypergeometric" /\ frame # None =>
           /\ Len(frame.visited) = ToInt(frame.kMax) - ToInt(frame.kMin) + 1
           /\ DLe(DFromInt(Len(frame.visited)), DAdd(form.sampleSize, One))

\* the Hypergeometric calculator has returned the results of the form
HypergeometricReturned ==
    form.calculator = "hypergeometric" /\ results # None /\ frame # None

\* C25: for valid Hypergeometric parameters the reported tails are exact at the
\* ends of the support, the precision warning raised or not: with k = kMax the
\* calculator reports P(X > k) = 0 and P(X <= k) = 1, with k = kMin it reports
\* P(X < k) = 0 and P(X >= k) = 1.
C25_ExactTails ==
    HypergeometricReturned =>
        /\ form.observedSuccesses = frame.kMax =>
               results.p_gt_k = Zero /\ results.p_lte_k = One
        /\ form.observedSuccesses = frame.kMin =>
               results.p_lt_k = Zero /\ results.p_gte_k = One

\* C27: the Hypergeometric calculator never returns NaN in its mean, variance
\* or standard deviation: for every form its validation accepts, N = 1
\* included, a NaN moment from the core is replaced by 0 in the results.
C27_NoNaNMoments ==
    HypergeometricReturned =>
        /\ ~IsNaN(results.mean) /\ ~IsNaN(results.variance) /\ ~IsNaN(results.stdDev)
        /\ \A variance \in {hypergeometricVariance(form.populationSize, form.successStates,
                                                 form.sampleSize)} :
               results.variance = IF IsNaN(variance) THEN Zero ELSE variance
        /\ \A mean \in {hypergeometricMean(form.populationSize, form.successStates,
                                            form.sampleSize)} :
               results.mean = IF IsNaN(mean) THEN Zero ELSE mean

\* N = K = n = k = 1: the core's variance is NaN, the results show 0
C27_Witness ==
    /\ HypergeometricReturned
    /\ form.populationSize = One /\ form.successStates = One
    /\ form.sampleSize = One /\ form.observedSuccesses = One
    /\ IsNaN(hypergeometricVariance(One, One, One))
    /\ results.variance = Zero /\ results.stdDev = Zero /\ results.mean = One

\* the Continuous Uniform calculator shows the results of its last
\* calculation: frame holds the values and the tab they were computed from
UniformReturned ==
    form.calculator = "uniform" /\ results # None /\ frame # None

\* C29: on the range tab, whenever x1 > x2 the label of the result row shows
\* the smaller value first and the larger second, P(min <= X <= max), for all
\* values of x1 and x2, 0 included, and names the interval of the alert below
\* the table.
C29_RangeLabel ==
    /\ UniformReturned
    /\ form = frame.currentValues
    /\ rangeRowShown(activeTab, results, form)
    /\ DGt(form.x1Value, form.x2Value)
    => /\ rangeRowLabel(results, form) = <<form.x2Value, form.x1Value>>
       /\ rangeRowLabel(results, form) = rangeAlertInterval(results, form)

\* C30: the x1 and x2 in the label of a displayed probability are the values
\* the probability was computed from, whatever was edited and whichever tab
\* was chosen since the calculation.
C30_LabelsAreInputs ==
    UniformReturned =>
        /\ greaterRowShown(activeTab, results, form) =>
               form.x1Value = frame.currentValues.x1Value
        /\ lessRowShown(activeTab, results, form) =>
               form.x2Value = frame.currentValues.x2Value
        /\ rangeRowShown(activeTab, results, form) =>
               \A data \in {frame.currentValues} :
                   rangeRowLabel(results, form) =
                       IF DGt(data.x1Value, data.x2Value)
                       THEN <<data.x2Value, data.x1Value>>
                       ELSE <<data.x1Value, data.x2Value>>

\* a calculator that defers its calculation with a timer is loading
DeferredLoading ==
    isLoading /\ form.calculator \in {"poisson", "hypergeometric", "uniform", "normal"}

\* C28: in every calculator that defers its calculation with a timer, a submit,
\* which sets isLoading, is eventually followed by isLoading = false.
C28_LoadingEnds == DeferredLoading ~> ~isLoading
====
